---- MODULE Spec2Model ----
(***************************************************************************)
(* A model of the QuickJS core shipped with rquickjs: the Array builtins   *)
(* (js-array.c), the JSON builtins (js-json.c), the inline cache (ic.h)    *)
(* and the reference-counting half of the garbage collector               *)
(* (quickjs-internals.h).  Each subsystem has its own specification: the   *)
(* variables of the other subsystems stay at their idle values.            *)
(***************************************************************************)
EXTENDS Integers, Sequences, FiniteSets, TLC

VARIABLES
  this_obj,   \* the receiver (this_val) of the last Array builtin call
  pre_obj,    \* the receiver as it was when that call started
  call,       \* the call: builtin name and arguments
  ret,        \* the JSValue returned by the call
  ret_arr,    \* the array object behind ret, when ret is a new array
  sort_pc,    \* js_array_sort: "idle", "rqsort" (inside rqsort) or "done"
  slots,      \* js_array_sort: array[0..pos-1], the ValueSlots handed to rqsort
  undefined_count,  \* js_array_sort: undefined elements set aside
  asc,        \* js_array_sort: struct array_sort_context
  json_pc,    \* JS_JSONStringify: "idle", "check", "to_str", "next" or "done"
  heap,       \* the objects reachable from the value being stringified
  jsc,        \* JSONStringifyContext, with the string buffer *b
  frames,     \* the active js_json_to_str calls on objects, innermost last
  cur,        \* holder, val, key, indent of the value being visited
  calls,      \* the toJSON and replacer calls made so far, in order
  current_exception,  \* the error thrown, "" when none
  parse_s,    \* JS_ParseJSON2: the JSParseState s1
  ic_cr,      \* inline cache: the InlineCacheRingSlot of one call site
  ic_recency, \* inline cache: ring positions in use, least recently used first
  ic_n,       \* inline cache: how many shapes the call site sees
  ic_hist,    \* inline cache: what the accesses so far did
  gc_objs,    \* heap: per object its JSGCObjectHeader.ref_count and children
  gc_owners,  \* heap: per object the references held from outside the heap
  gc_obj_list,             \* JSRuntime.gc_obj_list
  gc_zero_ref_count_list,  \* JSRuntime.gc_zero_ref_count_list
  gc_phase,                \* JSRuntime.gc_phase
  gc_finalized,            \* heap: per object how often it was finalized
  sh_shapes,       \* shapes: per address the JSShape stored there
  sh_objs,         \* shapes: per object its JSObject.shape and how it was built
  sh_array_shape   \* JSContext.array_shape, 0 before the context exists

array_vars == <<this_obj, pre_obj, call, ret, ret_arr>>
sort_vars == <<sort_pc, slots, undefined_count, asc>>
json_vars == <<json_pc, heap, jsc, frames, cur, calls, current_exception, parse_s>>
ic_vars == <<ic_cr, ic_recency, ic_n, ic_hist>>
gc_vars == <<gc_objs, gc_owners, gc_obj_list, gc_zero_ref_count_list, gc_phase, gc_finalized>>
shape_vars == <<sh_shapes, sh_objs, sh_array_shape>>
outside_array == <<json_vars, ic_vars, gc_vars, shape_vars>>
outside_json == <<this_obj, pre_obj, ret_arr, sort_vars, ic_vars, gc_vars, shape_vars>>
outside_stringify == <<outside_json, parse_s>>
outside_ic == <<array_vars, sort_vars, json_vars, gc_vars, shape_vars>>
outside_gc == <<array_vars, sort_vars, json_vars, ic_vars, shape_vars>>
outside_shape == <<array_vars, sort_vars, json_vars, ic_vars, gc_vars>>
vars == <<array_vars, sort_vars, json_vars, ic_vars, gc_vars, shape_vars>>

(***************************************************************************)
(* Bounds of the model.                                                    *)
(***************************************************************************)
MaxArrayLen == 4      \* longest receiver drawn by InitArray
MaxArgs == 2          \* most items passed to push / unshift / splice
MaxSortLen == 3       \* longest receiver drawn by InitSort
MaxElems == 2         \* most elements or members of a JSON text parsed
MaxExtraCommas == 1   \* most commas inserted into a JSON text parsed
MaxLookups == 10      \* most property accesses made through the cache slot
MaxObjects == 3       \* objects of the heap reference counting works on
MaxOwners == 2        \* most references held to one object from outside the heap
MaxEdges == 3         \* most references between the objects of a graph with cycles
MaxShapeObjs == 2     \* objects that hold a shape
MaxAccesses == 3      \* most reads of the property through the call site
MaxIcShapes == 2      \* shapes a slot is filled and probed with

(***************************************************************************)
(* JSValue: a tag and a payload.  Strings are decimal-digit strings and    *)
(* are named by the number they spell; objects are named by an id.         *)
(***************************************************************************)
JS_UNDEFINED == [tag |-> "undefined", v |-> 0]
JS_NULL == [tag |-> "null", v |-> 0]
JS_EXCEPTION == [tag |-> "exception", v |-> 0]
JS_NewInt32(n) == [tag |-> "int", v |-> n]
JS_NewBool(b) == [tag |-> "bool", v |-> IF b THEN 1 ELSE 0]
JS_NewString(n) == [tag |-> "string", v |-> n]
JS_MKOBJ(id) == [tag |-> "object", v |-> id]
JS_IsException(val) == val.tag = "exception"
JS_IsUndefined(val) == val.tag = "undefined"

max_int(a, b) == IF a > b THEN a ELSE b
min_int(a, b) == IF a < b THEN a ELSE b

(***************************************************************************)
(* int64_t.  TLC's integers are 32 bits wide, so a 64-bit quantity that    *)
(* can come near 2^53 is kept as two limbs, hi * LIMB + lo.                *)
(***************************************************************************)
LIMB == 67108864                                   \* 2^26
I64(n) == [hi |-> n \div LIMB, lo |-> n % LIMB]    \* 0 <= n < 2^31
I64Add(a, b) ==
  LET lo == a.lo + b.lo
  IN  [hi |-> a.hi + b.hi + lo \div LIMB, lo |-> lo % LIMB]
I64Lt(a, b) == a.hi < b.hi \/ (a.hi = b.hi /\ a.lo < b.lo)
I64Gt(a, b) == I64Lt(b, a)
I64Le(a, b) == ~I64Lt(b, a)
\* a - b for a >= b
I64Sub(a, b) ==
  IF a.lo >= b.lo THEN [hi |-> a.hi - b.hi, lo |-> a.lo - b.lo]
  ELSE [hi |-> a.hi - b.hi - 1, lo |-> a.lo + LIMB - b.lo]
I64Min(a, b) == IF I64Lt(a, b) THEN a ELSE b
\* 2^53 - 1 = (2^27 - 1) * 2^26 + (2^26 - 1)
MAX_SAFE_INTEGER == [hi |-> 134217727, lo |-> 67108863]
\* JS_NewInt64: an int when the value fits 32 bits, a float64 otherwise
JS_NewInt64(n64) ==
  IF n64.hi < 32 THEN [tag |-> "int", v |-> n64.hi * LIMB + n64.lo]
  ELSE [tag |-> "float64", hi |-> n64.hi, lo |-> n64.lo]

(***************************************************************************)
(* JSObject, as far as the Array builtins see it: the class id, the        *)
(* fast_array flag with u.array.u.values / u.array.count (the sequence     *)
(* values; C index i is values[i+1]) and u.array.u1.size, the own indexed  *)
(* properties of the generic (shape-backed) representation, and the        *)
(* length property.  bigprops holds the indexed properties whose index     *)
(* does not fit one limb.                                                  *)
(***************************************************************************)
NoProps == [k \in {} |-> JS_UNDEFINED]
PropSet(f, k, v) == [x \in (DOMAIN f) \cup {k} |-> IF x = k THEN v ELSE f[x]]
PropDel(f, k) == [x \in (DOMAIN f) \ {k} |-> f[x]]

NewFastArray(vals, sz, len) ==
  [class_id |-> "Array", fast_array |-> TRUE, values |-> vals, size |-> sz,
   props |-> NoProps, bigprops |-> NoProps, length |-> I64(len)]
NewSlowArray(ps, len) ==
  [class_id |-> "Array", fast_array |-> FALSE, values |-> <<>>, size |-> 0,
   props |-> ps, bigprops |-> NoProps, length |-> I64(len)]
NewArrayLike(ps, len64) ==
  [class_id |-> "Object", fast_array |-> FALSE, values |-> <<>>, size |-> 0,
   props |-> ps, bigprops |-> NoProps, length |-> len64]

js_is_fast_array(p) == p.class_id = "Array" /\ p.fast_array
js_get_length64(p) == p.length

\* uint32_t size * 9 / 2: the product is taken modulo 2^32, in two limbs of
\* 16 bits (size = hi * 2^16 + lo); the quotient is below 2^31
U16 == 2^16
u32_mul9_div2(hi, lo) ==
  LET l9 == lo * 9
      h9 == (hi * 9 + l9 \div U16) % U16
  IN  h9 * (U16 \div 2) + (l9 % U16) \div 2

\* the allocator (js_realloc2) refuses a request above its malloc_limit
expand_fast_array_nocopy(p, new_len, malloc_limit) ==
  LET new_size == max_int(new_len, u32_mul9_div2(p.size \div U16, p.size % U16))
  IN  IF new_size > malloc_limit
      THEN [ret |-> -1, p |-> p]
      ELSE [ret |-> 0, p |-> [p EXCEPT !.size = new_size, !.values = <<>>]]
expand_fast_array(p, new_len, malloc_limit) ==
  LET new_size == max_int(new_len, u32_mul9_div2(p.size \div U16, p.size % U16))
  IN  IF new_size > malloc_limit
      THEN [ret |-> -1, p |-> p]
      ELSE [ret |-> 0, p |-> [p EXCEPT !.size = new_size]]

add_fast_array_element(p, val, malloc_limit) ==
  LET new_len == Len(p.values) + 1
      p1 == IF p.length.hi = 0 /\ new_len > p.length.lo
            THEN [p EXCEPT !.length = I64(new_len)] ELSE p
      e == IF new_len > p1.size THEN expand_fast_array(p1, new_len, malloc_limit)
           ELSE [ret |-> 0, p |-> p1]
  IN  IF e.ret < 0 THEN [ret |-> -1, p |-> e.p]
      ELSE [ret |-> 1, p |-> [e.p EXCEPT !.values = Append(e.p.values, val)]]

convert_fast_array_to_array(p) ==
  [p EXCEPT !.fast_array = FALSE, !.values = <<>>, !.size = 0,
            !.props = [k \in 0..(Len(p.values) - 1) |-> p.values[k + 1]]]

\* presence and value of own index k (no indexed property is inherited:
\* Array.prototype and Object.prototype hold none)
JS_TryGetPropertyInt64(p, k) ==
  IF js_is_fast_array(p) /\ k < Len(p.values)
  THEN [present |-> 1, val |-> p.values[k + 1]]
  ELSE IF k \in DOMAIN p.props THEN [present |-> 1, val |-> p.props[k]]
  ELSE [present |-> 0, val |-> JS_UNDEFINED]
JS_GetPropertyInt64(p, k) == JS_TryGetPropertyInt64(p, k).val

\* the generic definition of index k on a shape-backed object
AddIndexProperty(p, k, val) ==
  LET q == [p EXCEPT !.props = PropSet(p.props, k, val)]
  IN  IF p.class_id = "Array" /\ q.length.hi = 0 /\ k + 1 > q.length.lo
      THEN [q EXCEPT !.length = I64(k + 1)] ELSE q

JS_SetPropertyInt64(p, k, val, malloc_limit) ==
  IF js_is_fast_array(p)
  THEN IF k < Len(p.values)
       THEN [ret |-> 1, p |-> [p EXCEPT !.values[k + 1] = val]]
       ELSE IF k = Len(p.values)
       THEN add_fast_array_element(p, val, malloc_limit)
       ELSE [ret |-> 1, p |-> AddIndexProperty(convert_fast_array_to_array(p), k, val)]
  ELSE [ret |-> 1, p |-> AddIndexProperty(p, k, val)]

\* an index that needs two limbs: always a generic property
JS_SetPropertyInt64Big(p, k64, val) ==
  [ret |-> 1, p |-> [p EXCEPT !.bigprops = PropSet(p.bigprops, k64, val)]]

JS_DeletePropertyInt64(p, k) ==
  IF js_is_fast_array(p)
  THEN IF k < Len(p.values)
       THEN IF k = Len(p.values) - 1
            THEN [p EXCEPT !.values = SubSeq(p.values, 1, k)]
            ELSE LET q == convert_fast_array_to_array(p)
                 IN  [q EXCEPT !.props = PropDel(q.props, k)]
       ELSE p
  ELSE [p EXCEPT !.props = PropDel(p.props, k)]

\* JS_SetProperty(obj, JS_ATOM_length, n): set_array_length for an Array,
\* an ordinary data property otherwise
JS_SetLength(p, n64) ==
  IF p.class_id = "Array"
  THEN IF p.fast_array
       THEN [p EXCEPT !.values = SubSeq(p.values, 1, min_int(Len(p.values), n64.lo)),
                      !.length = n64]
       ELSE [p EXCEPT !.props = [x \in {y \in DOMAIN p.props : y < n64.lo} |-> p.props[x]],
                      !.length = n64]
  ELSE [p EXCEPT !.length = n64]

\* js_strict_eq2 on the values of this model (no NaN, no -0): both modes
\* JS_EQ_STRICT and JS_EQ_SAME_VALUE_ZERO are equality of tag and payload
js_strict_eq2(a, b) == a = b

(***************************************************************************)
(* JS_ToInt64Clamp(ctx, &res, val, 0, max, neg_offset) for an integer      *)
(* argument: a negative value is taken relative to neg_offset, then the    *)
(* result is clamped into [0, max].                                        *)
(***************************************************************************)
JS_ToInt64Clamp(arg, max64, neg64) ==
  IF arg < 0
  THEN IF I64Lt(neg64, I64(-arg)) THEN I64(0)
       ELSE I64Min(I64Sub(neg64, I64(-arg)), max64)
  ELSE I64Min(I64(arg), max64)

(***************************************************************************)
(* js_array_includes(this_val, argv[0] = v, argv[1] = from when argc > 1)  *)
(***************************************************************************)
RECURSIVE includes_fast(_, _, _, _)
includes_fast(arrp, count, n, v) ==
  IF n >= count THEN [found |-> FALSE, n |-> n]
  ELSE IF js_strict_eq2(v, arrp[n + 1]) THEN [found |-> TRUE, n |-> n]
  ELSE includes_fast(arrp, count, n + 1, v)

RECURSIVE includes_generic_present(_, _, _, _)
includes_generic_present(p, len, n, v) ==
  IF n >= len THEN FALSE
  ELSE LET r == JS_TryGetPropertyInt64(p, n)
       IN  IF r.present = 1 /\ js_strict_eq2(v, r.val) THEN TRUE
           ELSE includes_generic_present(p, len, n + 1, v)

RECURSIVE includes_generic(_, _, _, _)
includes_generic(p, len, n, v) ==
  IF n >= len THEN FALSE
  ELSE IF js_strict_eq2(v, JS_GetPropertyInt64(p, n)) THEN TRUE
  ELSE includes_generic(p, len, n + 1, v)

\* as js_array_indexOf probes: an absent index is skipped
js_array_includes_present(p, argc, v, from) ==
  LET len64 == js_get_length64(p)
      len == len64.lo
  IN  IF len > 0
      THEN LET n0 == IF argc > 1 THEN JS_ToInt64Clamp(from, len64, len64).lo ELSE 0
               f == IF js_is_fast_array(p)
                    THEN includes_fast(p.values, Len(p.values), n0, v)
                    ELSE [found |-> FALSE, n |-> n0]
           IN  IF f.found THEN JS_NewBool(TRUE)
               ELSE JS_NewBool(includes_generic_present(p, len, f.n, v))
      ELSE JS_NewBool(FALSE)

js_array_includes(p, argc, v, from) ==
  LET len64 == js_get_length64(p)
      len == len64.lo
  IN  IF len > 0
      THEN LET n0 == IF argc > 1 THEN JS_ToInt64Clamp(from, len64, len64).lo ELSE 0
               f == IF js_is_fast_array(p)
                    THEN includes_fast(p.values, Len(p.values), n0, v)
                    ELSE [found |-> FALSE, n |-> n0]
           IN  IF f.found THEN JS_NewBool(TRUE)
               ELSE JS_NewBool(includes_generic(p, len, f.n, v))
      ELSE JS_NewBool(FALSE)

(***************************************************************************)
(* JS_CopySubArray(ctx, obj, to_pos, from_pos, count, dir)                 *)
(***************************************************************************)
RECURSIVE copy_fast(_, _, _, _, _, _)
\* for (j = 0; j < l; j++) set_value(&values[to -/+ j], values[from -/+ j])
copy_fast(vals, to, from, l, dir, j) ==
  IF j >= l THEN vals
  ELSE LET t == IF dir < 0 THEN to - j ELSE to + j
           f == IF dir < 0 THEN from - j ELSE from + j
       IN  copy_fast([vals EXCEPT ![t + 1] = vals[f + 1]], to, from, l, dir, j + 1)

RECURSIVE CopySubArray_loop(_, _, _, _, _, _, _, _)
CopySubArray_loop(p, was_fast, to_pos, from_pos, count, dir, i, malloc_limit) ==
  IF i >= count THEN [ret |-> 0, p |-> p]
  ELSE LET from == IF dir < 0 THEN from_pos + count - i - 1 ELSE from_pos + i
           to == IF dir < 0 THEN to_pos + count - i - 1 ELSE to_pos + i
           len == Len(p.values)
       IN  IF was_fast /\ p.fast_array /\ from >= 0 /\ from < len /\ to >= 0 /\ to < len
           THEN LET l == IF dir < 0
                         THEN min_int(min_int(count - i, from + 1), to + 1)
                         ELSE min_int(min_int(count - i, len - from), len - to)
                    q == [p EXCEPT !.values = copy_fast(p.values, to, from, l, dir, 0)]
                IN  CopySubArray_loop(q, was_fast, to_pos, from_pos, count, dir, i + l,
                                      malloc_limit)
           ELSE LET g == JS_TryGetPropertyInt64(p, from)
                IN  IF g.present = 1
                    THEN LET s == JS_SetPropertyInt64(p, to, g.val, malloc_limit)
                         IN  IF s.ret < 0 THEN [ret |-> -1, p |-> s.p]
                             ELSE CopySubArray_loop(s.p, was_fast, to_pos, from_pos,
                                                    count, dir, i + 1, malloc_limit)
                    ELSE CopySubArray_loop(JS_DeletePropertyInt64(p, to), was_fast,
                                           to_pos, from_pos, count, dir, i + 1,
                                           malloc_limit)

JS_CopySubArray(p, to_pos, from_pos, count, dir, malloc_limit) ==
  CopySubArray_loop(p, js_is_fast_array(p), to_pos, from_pos, count, dir, 0,
                    malloc_limit)

(***************************************************************************)
(* js_array_push(this_val, argc, argv, unshift).  The result is the        *)
(* returned JSValue (the new length, as int64 limbs, or JS_EXCEPTION) and  *)
(* the receiver as the call leaves it.                                     *)
(***************************************************************************)
RECURSIVE push_set(_, _, _, _, _)
\* for (i = 0; i < argc; i++) JS_SetPropertyInt64(obj, from + i, argv[i])
push_set(p, from64, argv, i, malloc_limit) ==
  IF i >= Len(argv) THEN [ret |-> 0, p |-> p]
  ELSE LET k64 == I64Add(from64, I64(i))
           s == IF k64.hi = 0
                THEN JS_SetPropertyInt64(p, k64.lo, argv[i + 1], malloc_limit)
                ELSE JS_SetPropertyInt64Big(p, k64, argv[i + 1])
       IN  IF s.ret < 0 THEN [ret |-> -1, p |-> s.p]
           ELSE push_set(s.p, from64, argv, i + 1, malloc_limit)

js_array_push_late_check(p, argv, unshift, malloc_limit) ==
  LET len64 == js_get_length64(p)
      newLen == I64Add(len64, I64(Len(argv)))
      w == push_set(p, len64, argv, 0, malloc_limit)
  IN  IF I64Gt(newLen, MAX_SAFE_INTEGER) \/ w.ret < 0
      THEN [val |-> JS_EXCEPTION, p |-> w.p]
      ELSE [val |-> JS_NewInt64(newLen), p |-> JS_SetLength(w.p, newLen)]

js_array_push(p, argv, unshift, malloc_limit) ==
  LET argc == Len(argv)
      len64 == js_get_length64(p)
      newLen == I64Add(len64, I64(argc))
  IN  IF I64Gt(newLen, MAX_SAFE_INTEGER)
      THEN [val |-> JS_EXCEPTION, p |-> p]
      ELSE LET c == IF unshift /\ argc > 0
                    THEN JS_CopySubArray(p, argc, 0, len64.lo, -1, malloc_limit)
                    ELSE [ret |-> 0, p |-> p]
               from64 == IF unshift /\ argc > 0 THEN I64(0) ELSE len64
           IN  IF c.ret < 0 THEN [val |-> JS_EXCEPTION, p |-> c.p]
               ELSE LET w == push_set(c.p, from64, argv, 0, malloc_limit)
                    IN  IF w.ret < 0
                        THEN [val |-> JS_EXCEPTION, p |-> w.p]
                        ELSE [val |-> JS_NewInt64(newLen), p |-> JS_SetLength(w.p, newLen)]

(***************************************************************************)
(* js_array_slice(this_val, argc, argv, splice).  arg0 and arg1 are        *)
(* argv[0] and argv[1] (integers), items is argv[2..] of splice.           *)
(***************************************************************************)
NEW_ARRAY == JS_MKOBJ(0)      \* the JSValue of the array the call creates
NoArray == NewFastArray(<<>>, 0, 0)

\* JS_ArraySpeciesCreate with the default species: new Array(count)
JS_ArraySpeciesCreate(count) == NewFastArray(<<>>, 0, count)

RECURSIVE slice_fast(_, _, _, _, _, _, _)
\* for (; k < final && k < count32; k++, n++) CreateDataProperty(arr, n, arrp[k])
slice_fast(arr, arrp, k, final, count32, n, malloc_limit) ==
  IF ~(k < final /\ k < count32) THEN [ret |-> 0, arr |-> arr, k |-> k, n |-> n]
  ELSE LET s == JS_SetPropertyInt64(arr, n, arrp[k + 1], malloc_limit)
       IN  IF s.ret < 0 THEN [ret |-> -1, arr |-> s.p, k |-> k, n |-> n]
           ELSE slice_fast(s.p, arrp, k + 1, final, count32, n + 1, malloc_limit)

RECURSIVE slice_generic(_, _, _, _, _, _)
\* for (; k < final; k++, n++) if (kPresent) CreateDataProperty(arr, n, val)
slice_generic(arr, p, k, final, n, malloc_limit) ==
  IF k >= final THEN [ret |-> 0, arr |-> arr, n |-> n]
  ELSE LET g == JS_TryGetPropertyInt64(p, k)
       IN  IF g.present = 1
           THEN LET s == JS_SetPropertyInt64(arr, n, g.val, malloc_limit)
                IN  IF s.ret < 0 THEN [ret |-> -1, arr |-> s.p, n |-> n]
                    ELSE slice_generic(s.p, p, k + 1, final, n + 1, malloc_limit)
           ELSE slice_generic(arr, p, k + 1, final, n + 1, malloc_limit)

RECURSIVE splice_delete(_, _, _)
\* for (k = len; k-- > new_len;) JS_DeletePropertyInt64(obj, k)
splice_delete(p, k, new_len) ==
  IF k > new_len THEN splice_delete(JS_DeletePropertyInt64(p, k - 1), k - 1, new_len)
  ELSE p

\* splice that overwrites in place without moving the tail
splice_receiver_no_shift(p, len, start, del_count, items, malloc_limit) ==
  LET new_len == len + Len(items) - del_count
      w == push_set(p, I64(start), items, 0, malloc_limit)
  IN  IF w.ret < 0 THEN w ELSE [ret |-> 0, p |-> JS_SetLength(w.p, I64(new_len))]

\* [1313-1330]: the receiver's side of splice
splice_receiver(p, len, start, del_count, items, malloc_limit) ==
  LET item_count == Len(items)
      new_len == len + item_count - del_count
      c == IF item_count # del_count
           THEN JS_CopySubArray(p, start + item_count, start + del_count,
                                len - (start + del_count),
                                IF item_count <= del_count THEN 1 ELSE -1,
                                malloc_limit)
           ELSE [ret |-> 0, p |-> p]
  IN  IF c.ret < 0 THEN c
      ELSE LET d == IF item_count # del_count
                    THEN splice_delete(c.p, len, new_len) ELSE c.p
               w == push_set(d, I64(start), items, 0, malloc_limit)
           IN  IF w.ret < 0 THEN w
               ELSE [ret |-> 0, p |-> JS_SetLength(w.p, I64(new_len))]

js_array_slice(p, argc, arg0, arg1, items, splice, malloc_limit) ==
  LET len64 == js_get_length64(p)
      start64 == JS_ToInt64Clamp(arg0, len64, len64)
      item_count == IF splice /\ argc >= 2 THEN Len(items) ELSE 0
      del64 == IF argc = 0 THEN I64(0)
               ELSE IF argc = 1 THEN I64Sub(len64, start64)
               ELSE JS_ToInt64Clamp(arg1, I64Sub(len64, start64), I64(0))
      final64 == IF argc >= 2 THEN JS_ToInt64Clamp(arg1, len64, len64) ELSE len64
      len == len64.lo
      start == start64.lo
      count == IF splice THEN del64.lo ELSE max_int(final64.lo - start, 0)
  IN  IF splice /\ I64Gt(I64Sub(I64Add(len64, I64(item_count)), del64), MAX_SAFE_INTEGER)
      THEN [val |-> JS_EXCEPTION, arr |-> NoArray, p |-> p]
      ELSE LET arr0 == JS_ArraySpeciesCreate(count)
               final == start + count
               f == IF js_is_fast_array(p) /\ js_is_fast_array(arr0)
                    THEN slice_fast(arr0, p.values, start, final, Len(p.values), 0,
                                    malloc_limit)
                    ELSE [ret |-> 0, arr |-> arr0, k |-> start, n |-> 0]
               g == IF f.ret < 0 THEN [ret |-> -1, arr |-> f.arr, n |-> f.n]
                    ELSE slice_generic(f.arr, p, f.k, final, f.n, malloc_limit)
           IN  IF g.ret < 0 THEN [val |-> JS_EXCEPTION, arr |-> NoArray, p |-> p]
               ELSE LET arr == JS_SetLength(g.arr, I64(g.n))
                        r == IF splice
                             THEN splice_receiver(p, len, start, del64.lo,
                                                  IF argc >= 2 THEN items ELSE <<>>,
                                                  malloc_limit)
                             ELSE [ret |-> 0, p |-> p]
                    IN  IF r.ret < 0 THEN [val |-> JS_EXCEPTION, arr |-> NoArray, p |-> r.p]
                        ELSE [val |-> NEW_ARRAY, arr |-> arr, p |-> r.p]

(***************************************************************************)
(* The Array builtins as a state machine: Init draws a receiver, one       *)
(* action per builtin applies it to the receiver.                          *)
(***************************************************************************)
HOLE == [tag |-> "hole", v |-> 0]

\* what script sees of an array: its length and, per index, the own element
\* or HOLE where there is none
View(p) ==
  [len |-> p.length.lo,
   elems |-> [k \in 0..(p.length.lo - 1) |->
                LET g == JS_TryGetPropertyInt64(p, k)
                IN  IF g.present = 1 THEN g.val ELSE HOLE]]

\* a layout says of each index whether it holds a number, undefined or nothing
Layouts(n) == [0..(n - 1) -> {"val", "undef", "hole"}]
ElemAt(L, k) == IF L[k] = "val" THEN JS_NewInt32(k + 1) ELSE JS_UNDEFINED
Present(L, n) == {k \in 0..(n - 1) : L[k] # "hole"}
HolesAreSuffix(L, n) == \A k \in 0..(n - 1) : L[k] = "hole" => \A j \in k..(n - 1) : L[j] = "hole"
SlowOf(L, n) == NewSlowArray([k \in Present(L, n) |-> ElemAt(L, k)], n)
FastOf(L, n, slackn) ==
  LET c == Cardinality(Present(L, n))
  IN  NewFastArray([i \in 1..c |-> ElemAt(L, i - 1)], c + slackn, n)
ArrayLikes ==
  {NewArrayLike(NoProps, MAX_SAFE_INTEGER),
   NewArrayLike(NoProps, I64Sub(MAX_SAFE_INTEGER, I64(1))),
   NewArrayLike([k \in 0..1 |-> JS_NewInt32(k + 1)], I64(2))}
InitArrays ==
  UNION {{SlowOf(L, n) : L \in Layouts(n)} : n \in 0..MaxArrayLen}
  \cup UNION {{FastOf(L, n, e) : L \in {M \in Layouts(n) : HolesAreSuffix(M, n)}, e \in 0..1}
              : n \in 0..MaxArrayLen}
  \cup ArrayLikes

Items(n) == [i \in 1..n |-> JS_NewString(i)]
MallocLimits == {3, 1000}
NoCall == [fn |-> "none"]

JsonIdle ==
  /\ json_pc = "idle"
  /\ heap = <<>>
  /\ jsc = <<>>
  /\ frames = <<>>
  /\ cur = <<>>
  /\ calls = <<>>
  /\ current_exception = ""
  /\ parse_s = <<>>

ArrayIdle ==
  /\ this_obj = NoArray
  /\ pre_obj = NoArray
  /\ ret_arr = NoArray

ShapeIdle ==
  /\ sh_shapes = <<>>
  /\ sh_objs = <<>>
  /\ sh_array_shape = 0

IcIdle ==
  /\ ic_cr = <<>>
  /\ ic_recency = <<>>
  /\ ic_n = 0
  /\ ic_hist = <<>>
  /\ ShapeIdle

GcIdle ==
  /\ gc_objs = <<>>
  /\ gc_owners = <<>>
  /\ gc_obj_list = <<>>
  /\ gc_zero_ref_count_list = <<>>
  /\ gc_phase = "JS_GC_PHASE_NONE"
  /\ gc_finalized = <<>>

OutsideArrayIdle == JsonIdle /\ IcIdle /\ GcIdle

SortIdle ==
  /\ sort_pc = "idle"
  /\ slots = <<>>
  /\ undefined_count = 0
  /\ asc = [exception |-> 0, has_method |-> 0, method |-> "undefined"]

InitArray ==
  /\ this_obj \in InitArrays
  /\ pre_obj = this_obj
  /\ call = NoCall
  /\ ret = JS_UNDEFINED
  /\ ret_arr = NoArray
  /\ SortIdle
  /\ OutsideArrayIdle

Includes ==
  /\ call = NoCall
  /\ this_obj.length.hi = 0
  /\ \E v \in {JS_UNDEFINED, JS_NewInt32(1), JS_NewInt32(3)}, argc \in 1..2, from \in -1..1 :
       /\ argc = 1 => from = 0
       /\ call' = [fn |-> "includes", argc |-> argc, v |-> v, from |-> from]
       /\ ret' = js_array_includes(this_obj, argc, v, from)
  /\ pre_obj' = this_obj
  /\ UNCHANGED <<this_obj, ret_arr, sort_vars, outside_array>>

Push ==
  /\ call = NoCall
  /\ \E n \in 0..MaxArgs, unshift \in BOOLEAN, malloc_limit \in MallocLimits :
       \* unshift of a receiver longer than 2^26 moves every element: the
       \* model takes it only when the call is rejected or moves nothing
       /\ \/ this_obj.length.hi = 0
          \/ ~unshift
          \/ n = 0
          \/ I64Gt(I64Add(this_obj.length, I64(n)), MAX_SAFE_INTEGER)
       /\ \E r \in {js_array_push(this_obj, Items(n), unshift, malloc_limit)} :
              /\ call' = [fn |-> IF unshift THEN "unshift" ELSE "push",
                          argv |-> Items(n), malloc_limit |-> malloc_limit]
              /\ ret' = r.val
              /\ this_obj' = r.p
  /\ pre_obj' = this_obj
  /\ UNCHANGED <<ret_arr, sort_vars, outside_array>>

\* the length splice would leave, as ECMAScript states it
SpliceStart(len64, argc, arg0) ==
  IF argc = 0 THEN I64(0) ELSE JS_ToInt64Clamp(arg0, len64, len64)
SpliceDel(len64, argc, arg0, arg1) ==
  LET rest == I64Sub(len64, SpliceStart(len64, argc, arg0))
  IN  IF argc = 0 THEN I64(0)
      ELSE IF argc = 1 THEN rest
      ELSE IF arg1 < 0 THEN I64(0) ELSE I64Min(I64(arg1), rest)
SpliceNewLen(len64, argc, arg0, arg1, n) ==
  I64Sub(I64Add(len64, I64(n)), SpliceDel(len64, argc, arg0, arg1))

Splice ==
  /\ call = NoCall
  /\ \E argc \in 0..(2 + MaxArgs), arg0 \in -1..MaxArrayLen, arg1 \in -1..3,
        malloc_limit \in MallocLimits :
       LET n == IF argc >= 2 THEN argc - 2 ELSE 0
       IN  /\ argc = 0 => arg0 = 0
           /\ argc < 2 => arg1 = 0
           \* a receiver longer than 2^26 is taken only when the call is rejected
           /\ \/ this_obj.length.hi = 0
              \/ I64Gt(SpliceNewLen(this_obj.length, argc, arg0, arg1, n), MAX_SAFE_INTEGER)
           /\ \E r \in {js_array_slice(this_obj, argc, arg0, arg1, Items(n), TRUE,
                                          malloc_limit)} :
                  /\ call' = [fn |-> "splice", argc |-> argc, arg0 |-> arg0,
                              arg1 |-> arg1, items |-> Items(n),
                              malloc_limit |-> malloc_limit]
                  /\ ret' = r.val
                  /\ ret_arr' = r.arr
                  /\ this_obj' = r.p
  /\ pre_obj' = this_obj
  /\ UNCHANGED <<sort_vars, outside_array>>

NextArray == Includes \/ Push \/ Splice

SpecArray == InitArray /\ [][NextArray]_vars

(***************************************************************************)
(* Claims on the Array builtins (specification SpecArray).                 *)
(***************************************************************************)
ViewOf(seq) == [len |-> Len(seq), elems |-> [k \in 0..(Len(seq) - 1) |-> seq[k + 1]]]
V_1_2_hole_4 == ViewOf(<<JS_NewInt32(1), JS_NewInt32(2), HOLE, JS_NewInt32(4)>>)
V_hole == ViewOf(<<HOLE>>)
IncludesUndefinedCall ==
  call.fn = "includes" /\ call.argc = 1 /\ call.v = JS_UNDEFINED

IncludesFrom(len, argc, from) ==
  IF argc < 2 THEN 0
  ELSE IF from < 0 THEN max_int(len + from, 0) ELSE min_int(from, len)

C6_SpliceResult ==
  (call.fn = "splice" /\ ~JS_IsException(ret)) =>
    LET a == View(pre_obj)
        start == SpliceStart(pre_obj.length, call.argc, call.arg0).lo
        del == SpliceDel(pre_obj.length, call.argc, call.arg0, call.arg1).lo
        n == Len(call.items)
    IN  /\ View(ret_arr) = [len |-> del, elems |-> [k \in 0..(del - 1) |-> a.elems[start + k]]]
        /\ View(this_obj) =
             [len |-> a.len + n - del,
              elems |-> [k \in 0..(a.len + n - del - 1) |->
                           IF k < start THEN a.elems[k]
                           ELSE IF k < start + n THEN call.items[k - start + 1]
                           ELSE a.elems[k - n + del]]]

V_1_2_3 == ViewOf(<<JS_NewInt32(1), JS_NewInt32(2), JS_NewInt32(3)>>)
\* [1,2,3].splice(1, 0, x) gave [1,x,2,3] and returned []
C6_Witness ==
  /\ call.fn = "splice" /\ call.argc = 3 /\ call.arg0 = 1 /\ call.arg1 = 0
  /\ View(pre_obj) = V_1_2_3
  /\ View(this_obj) = ViewOf(<<JS_NewInt32(1), JS_NewString(1), JS_NewInt32(2), JS_NewInt32(3)>>)
  /\ View(ret_arr) = ViewOf(<<>>)

\* [1,2,3].splice(1, 1) gave [1,3] and returned [2]
C6_SecondExample ==
  /\ call.fn = "splice" /\ call.argc = 2 /\ call.arg0 = 1 /\ call.arg1 = 1
  /\ View(pre_obj) = V_1_2_3
  /\ View(this_obj) = ViewOf(<<JS_NewInt32(1), JS_NewInt32(3)>>)
  /\ View(ret_arr) = ViewOf(<<JS_NewInt32(2)>>)

\* the length the call would leave exceeds 2^53 - 1
LengthOverflow ==
  \/ /\ call.fn \in {"push", "unshift"}
     /\ I64Gt(I64Add(pre_obj.length, I64(Len(call.argv))), MAX_SAFE_INTEGER)
  \/ /\ call.fn = "splice"
     /\ I64Gt(SpliceNewLen(pre_obj.length, call.argc, call.arg0, call.arg1,
                           Len(call.items)), MAX_SAFE_INTEGER)

\* C7: push, unshift and splice reject a resulting length above 2^53 - 1
\* with the exception sentinel and leave the receiver as it was
C7_LengthOverflowRejected ==
  LengthOverflow => (ret = JS_EXCEPTION /\ this_obj = pre_obj)

C7_Witness ==
  /\ LengthOverflow
  /\ call.fn = "push"
  /\ Len(call.argv) = 1
  /\ pre_obj.length = MAX_SAFE_INTEGER
  /\ ret = JS_EXCEPTION

C7_WitnessUnshift == LengthOverflow /\ call.fn = "unshift" /\ ret = JS_EXCEPTION
C7_WitnessSplice == LengthOverflow /\ call.fn = "splice" /\ ret = JS_EXCEPTION
\* the longest length push accepts
C7_WitnessAccepted ==
  /\ call.fn = "push" /\ ~JS_IsException(ret)
  /\ this_obj.length = MAX_SAFE_INTEGER
  /\ DOMAIN this_obj.bigprops # {}

NULL_STR == <<-1>>                 \* ValueSlot.str == NULL
OBJECT_STR == <<43>>               \* "[object Object]": '[' sorts after the digits

RECURSIVE Digits(_)
Digits(n) == IF n < 10 THEN <<n>> ELSE Append(Digits(n \div 10), n % 10)

\* an object whose toString throws
THROWING_OBJ == JS_MKOBJ(99)
EXCEPTION_STR == <<-2>>            \* JS_ToString returned JS_EXCEPTION

\* JS_ToString of the values sorted here
JS_ToString(val) ==
  IF val = THROWING_OBJ THEN EXCEPTION_STR
  ELSE IF val.tag = "object" THEN OBJECT_STR ELSE Digits(val.v)

RECURSIVE js_string_compare(_, _)
\* code-unit-wise comparison: -1, 0 or 1
js_string_compare(a, b) ==
  IF a = <<>> /\ b = <<>> THEN 0
  ELSE IF a = <<>> THEN -1
  ELSE IF b = <<>> THEN 1
  ELSE IF Head(a) < Head(b) THEN -1
  ELSE IF Head(a) > Head(b) THEN 1
  ELSE js_string_compare(Tail(a), Tail(b))

\* the property k a comparator reads
KeyOf(val) == IF val.tag = "object" THEN val.v \div 10 ELSE val.v
JS_NewFloat64Half(twice) == [tag |-> "float64", nan |-> FALSE, twice |-> twice]
JS_NAN == [tag |-> "float64", nan |-> TRUE, twice |-> 0]
Methods == {"byKey", "byKeyDesc", "byKeyHalf", "nan", "throws"}

\* JS_Call(ctx, psc->method, JS_UNDEFINED, 2, argv)
JS_Call(method, a, b) ==
  CASE method = "byKey" -> JS_NewInt32(KeyOf(a) - KeyOf(b))
    [] method = "byKeyDesc" -> JS_NewInt32(KeyOf(b) - KeyOf(a))
    [] method = "byKeyHalf" -> JS_NewFloat64Half(KeyOf(a) - KeyOf(b))
    [] method = "nan" -> JS_NAN
    \* a comparator that throws when it is handed the object {k: 2}
    [] method = "throwsOn21" ->
         IF JS_MKOBJ(21) \in {a, b} THEN JS_EXCEPTION
         ELSE JS_NewInt32(KeyOf(a) - KeyOf(b))
    \* a comparator that returns an object whose valueOf throws
    [] method = "returnsThrowing" ->
         IF JS_MKOBJ(21) \in {a, b} THEN THROWING_OBJ
         ELSE JS_NewInt32(KeyOf(a) - KeyOf(b))
    [] OTHER -> JS_EXCEPTION

Sign(n) == IF n > 0 THEN 1 ELSE IF n < 0 THEN -1 ELSE 0
\* (val > 0) - (val < 0) on the double JS_ToFloat64Free yields
FloatSign(res) == IF res.nan THEN 0 ELSE Sign(res.twice)
PosCmp(ap, bp) == Sign(ap.pos - bp.pos)

\* JS_ToFloat64Free(ctx, &val, res) < 0: the comparator returned an object
\* whose conversion to a number throws
ToFloat64Fails(res) == res.tag = "object"

\* the string comparison of two slots: JS_ToString of a->val and of b->val
\* unless cached; the conversion of b is not tried when that of a failed
cmp_strings(ap, bp) ==
  LET sa == IF ap.str = NULL_STR THEN JS_ToString(ap.val) ELSE ap.str
      a1 == IF sa = EXCEPTION_STR THEN ap ELSE [ap EXCEPT !.str = sa]
      sb == IF sa = EXCEPTION_STR THEN bp.str
            ELSE IF bp.str = NULL_STR THEN JS_ToString(bp.val) ELSE bp.str
      b1 == IF sb = EXCEPTION_STR THEN bp ELSE [bp EXCEPT !.str = sb]
      n == (IF ap.str = NULL_STR THEN 1 ELSE 0)
           + (IF sa # EXCEPTION_STR /\ bp.str = NULL_STR THEN 1 ELSE 0)
  IN  IF sa = EXCEPTION_STR \/ sb = EXCEPTION_STR
      THEN [cmp |-> 0, ap |-> a1, bp |-> b1, exception |-> 1, invoked |-> n]
      ELSE [cmp |-> js_string_compare(sa, sb), ap |-> a1, bp |-> b1, exception |-> 0,
            invoked |-> n]

\* the comparison without the tie-break on the array offsets
js_array_cmp_generic_unstable(ap, bp, psc) ==
  IF psc.exception = 1
  THEN [cmp |-> 0, ap |-> ap, bp |-> bp, exception |-> 1, invoked |-> 0]
  ELSE IF psc.has_method = 1
  THEN IF ap.val = bp.val
       THEN [cmp |-> 0, ap |-> ap, bp |-> bp, exception |-> 0, invoked |-> 0]
       ELSE LET res == JS_Call(psc.method, ap.val, bp.val)
            IN  IF JS_IsException(res) \/ ToFloat64Fails(res)
                THEN [cmp |-> 0, ap |-> ap, bp |-> bp, exception |-> 1, invoked |-> 1]
                ELSE [cmp |-> IF res.tag = "int" THEN Sign(res.v) ELSE FloatSign(res),
                      ap |-> ap, bp |-> bp, exception |-> 0, invoked |-> 1]
  ELSE cmp_strings(ap, bp)

\* the comparison without the test of psc->exception
js_array_cmp_generic_no_latch(ap, bp, psc) ==
  IF psc.has_method = 1
  THEN IF ap.val = bp.val
       THEN [cmp |-> PosCmp(ap, bp), ap |-> ap, bp |-> bp, exception |-> psc.exception,
             invoked |-> 0]
       ELSE LET res == JS_Call(psc.method, ap.val, bp.val)
            IN  IF JS_IsException(res) \/ ToFloat64Fails(res)
                THEN [cmp |-> 0, ap |-> ap, bp |-> bp, exception |-> 1, invoked |-> 1]
                ELSE LET cmp == IF res.tag = "int" THEN Sign(res.v) ELSE FloatSign(res)
                     IN  [cmp |-> IF cmp # 0 THEN cmp ELSE PosCmp(ap, bp),
                          ap |-> ap, bp |-> bp, exception |-> psc.exception,
                          invoked |-> 1]
  ELSE LET r == cmp_strings(ap, bp)
       IN  IF r.exception = 1 THEN r
           ELSE [r EXCEPT !.cmp = IF r.cmp # 0 THEN r.cmp ELSE PosCmp(r.ap, r.bp),
                          !.exception = psc.exception]

\* js_array_cmp_generic(a, b, opaque): the result, the two slots (their str
\* may have been filled in), psc->exception, and how many calls of the
\* comparator and of JS_ToString it made
js_array_cmp_generic(ap, bp, psc) ==
  IF psc.exception = 1
  THEN [cmp |-> 0, ap |-> ap, bp |-> bp, exception |-> 1, invoked |-> 0]
  ELSE IF psc.has_method = 1
  THEN IF ap.val = bp.val
       THEN [cmp |-> PosCmp(ap, bp), ap |-> ap, bp |-> bp, exception |-> 0,
             invoked |-> 0]
       ELSE LET res == JS_Call(psc.method, ap.val, bp.val)
            IN  IF JS_IsException(res) \/ ToFloat64Fails(res)
                THEN [cmp |-> 0, ap |-> ap, bp |-> bp, exception |-> 1, invoked |-> 1]
                ELSE LET cmp == IF res.tag = "int" THEN Sign(res.v) ELSE FloatSign(res)
                     IN  [cmp |-> IF cmp # 0 THEN cmp ELSE PosCmp(ap, bp),
                          ap |-> ap, bp |-> bp, exception |-> 0, invoked |-> 1]
  ELSE LET r == cmp_strings(ap, bp)
       IN  IF r.exception = 1 THEN r
           ELSE [r EXCEPT !.cmp = IF r.cmp # 0 THEN r.cmp ELSE PosCmp(r.ap, r.bp)]

RECURSIVE sort_collect(_, _, _, _, _)
\* [1559-1583]: the present, defined elements with their index; undefined
\* elements are only counted
sort_collect(p, len, i, array, undef) ==
  IF i >= len THEN [array |-> array, undefined_count |-> undef]
  ELSE LET g == JS_TryGetPropertyInt64(p, i)
       IN  IF g.present = 0 THEN sort_collect(p, len, i + 1, array, undef)
           ELSE IF JS_IsUndefined(g.val) THEN sort_collect(p, len, i + 1, array, undef + 1)
           ELSE sort_collect(p, len, i + 1,
                             Append(array, [val |-> g.val, str |-> NULL_STR, pos |-> i]),
                             undef)

RECURSIVE sort_store(_, _, _)
\* [1589-1601]: array[n] goes to index n unless it came from there
sort_store(p, array, n) ==
  IF n >= Len(array) THEN p
  ELSE IF array[n + 1].pos = n THEN sort_store(p, array, n + 1)
  ELSE sort_store(JS_SetPropertyInt64(p, n, array[n + 1].val, 1000).p, array, n + 1)

\* what becomes of the references held by the slots.  On the exception
\* path [1613-1618] every val and every cached str is freed; on the store
\* path [1589-1601] the str is freed, and the val is freed when the slot is
\* already in place and handed to JS_SetPropertyInt64 otherwise
sort_release(array, exception) ==
  [n \in 1..Len(array) |->
     [val_freed |-> IF exception = 1 \/ array[n].pos = n - 1 THEN 1 ELSE 0,
      val_stored |-> IF exception = 0 /\ array[n].pos # n - 1 THEN 1 ELSE 0,
      str_freed |-> IF array[n].str # NULL_STR THEN 1 ELSE 0]]

RECURSIVE sort_store_undefined(_, _, _)
\* [1603-1606]
sort_store_undefined(p, i, undef) ==
  IF undef <= 0 THEN p
  ELSE sort_store_undefined(JS_SetPropertyInt64(p, i, JS_UNDEFINED, 1000).p, i + 1,
                            undef - 1)

\* a sort that leaves the indices behind the stored elements as they are
sort_delete_none(p, i, len) == p

RECURSIVE sort_delete(_, _, _)
\* [1607-1610]
sort_delete(p, i, len) ==
  IF i >= len THEN p ELSE sort_delete(JS_DeletePropertyInt64(p, i), i + 1, len)

\* the last pass of a sort routine: each neighbouring pair compared once
RECURSIVE rqsort_verify(_, _, _)
rqsort_verify(array, psc, i) ==
  IF i >= Len(array) THEN [array |-> array, psc |-> psc, sorted |-> TRUE, invoked |-> 0]
  ELSE LET r == js_array_cmp_generic(array[i], array[i + 1], psc)
           array1 == [array EXCEPT ![i] = r.ap, ![i + 1] = r.bp]
           psc1 == [psc EXCEPT !.exception = r.exception]
       IN  IF r.cmp > 0
           THEN [array |-> array1, psc |-> psc1, sorted |-> FALSE, invoked |-> r.invoked]
           ELSE LET v == rqsort_verify(array1, psc1, i + 1)
                IN  [v EXCEPT !.invoked = @ + r.invoked]

\* the receivers sort is tried on: a fast array when the holes are a
\* suffix, a shape-backed array otherwise
MakeArray(seq) ==
  LET n == Len(seq)
      present == {k \in 0..(n - 1) : seq[k + 1] # HOLE}
  IN  IF \A k \in present : \A j \in 0..k : j \in present
      THEN NewFastArray([i \in 1..Cardinality(present) |-> seq[i]], Cardinality(present), n)
      ELSE NewSlowArray([k \in present |-> seq[k + 1]], n)
SortPoolMethod == {JS_MKOBJ(11), JS_MKOBJ(12), JS_MKOBJ(21), JS_UNDEFINED, HOLE}
SortPoolDefault == {JS_NewInt32(2), JS_NewString(2), JS_NewInt32(10), JS_MKOBJ(11), HOLE}
SeqsUpTo(S, n) == UNION {[1..m -> S] : m \in 0..n}

\* the count of comparator and JS_ToString calls is kept up to this value
MaxInvoked == 6

InitSort ==
  /\ \E method \in Methods \cup {"undefined"} :
       /\ call = [fn |-> "sort", method |-> method, invoked |-> 0, released |-> <<>>]
       /\ this_obj \in {MakeArray(q) :
                          q \in SeqsUpTo(IF method = "undefined" THEN SortPoolDefault
                                         ELSE SortPoolMethod, MaxSortLen)}
  /\ pre_obj = this_obj
  /\ ret = JS_UNDEFINED
  /\ ret_arr = NoArray
  /\ SortIdle
  /\ OutsideArrayIdle

\* js_array_sort up to the call of rqsort [1541-1583]
SortCollect ==
  /\ call.fn = "sort"
  /\ sort_pc = "idle"
  /\ \E c \in {sort_collect(this_obj, js_get_length64(this_obj).lo, 0, <<>>, 0)} :
       /\ slots' = c.array
       /\ undefined_count' = c.undefined_count
  /\ asc' = [exception |-> 0,
             has_method |-> IF call.method = "undefined" THEN 0 ELSE 1,
             method |-> call.method]
  /\ sort_pc' = "rqsort"
  /\ UNCHANGED <<array_vars, outside_array>>

\* rqsort compares any two slots, in either order, and exchanges them when
\* the comparison says they are out of order
RqsortCompare ==
  /\ sort_pc = "rqsort"
  /\ \E i, j \in 1..Len(slots) :
       /\ i # j
       /\ \E r \in {js_array_cmp_generic(slots[i], slots[j], asc)} :
            /\ asc' = [asc EXCEPT !.exception = r.exception]
            /\ slots' = IF (i < j /\ r.cmp > 0) \/ (i > j /\ r.cmp < 0)
                        THEN [slots EXCEPT ![i] = r.bp, ![j] = r.ap]
                        ELSE [slots EXCEPT ![i] = r.ap, ![j] = r.bp]
            /\ call' = [call EXCEPT !.invoked = min_int(@ + r.invoked, MaxInvoked)]
  /\ UNCHANGED <<this_obj, pre_obj, ret, ret_arr, sort_pc, undefined_count,
                 outside_array>>

\* rqsort returns once its comparisons find the slots in order; js_array_sort
\* then stores the result [1585-1623]
SortFinish ==
  /\ sort_pc = "rqsort"
  /\ \E v \in {rqsort_verify(slots, asc, 1)} :
       /\ v.sorted
       /\ slots' = v.array
       /\ asc' = v.psc
       /\ call' = [call EXCEPT !.invoked = min_int(@ + v.invoked, MaxInvoked),
                               !.released = sort_release(v.array, v.psc.exception)]
       /\ IF v.psc.exception = 1
          THEN /\ ret' = JS_EXCEPTION
               /\ UNCHANGED this_obj
          ELSE /\ ret' = JS_MKOBJ(1)
               /\ this_obj' =
                    sort_delete(
                      sort_store_undefined(sort_store(this_obj, v.array, 0),
                                           Len(v.array), undefined_count),
                      Len(v.array) + undefined_count, js_get_length64(this_obj).lo)
  /\ sort_pc' = "done"
  /\ UNCHANGED <<pre_obj, ret_arr, undefined_count, outside_array>>

NextSort == SortCollect \/ RqsortCompare \/ SortFinish

SpecSort == InitSort /\ [][NextSort]_vars

(***************************************************************************)
(* Claims on sort (specification SpecSort).                                *)
(***************************************************************************)
\* the outcome of comparing x and y as the comparator (or, without one, the
\* string comparison) decides it: identical values and NaN compare equal
Compare(method, x, y) ==
  IF method = "undefined" THEN js_string_compare(JS_ToString(x), JS_ToString(y))
  ELSE IF x = y THEN 0
  ELSE LET res == JS_Call(method, x, y)
       IN  IF res.tag = "int" THEN Sign(res.v) ELSE FloatSign(res)

Sortable(a) == {k \in 0..(a.len - 1) : a.elems[k] # HOLE /\ a.elems[k] # JS_UNDEFINED}
\* how many elements a stable sort puts before the element of index k
StableRank(a, method, k) ==
  Cardinality({j \in Sortable(a) :
                 \/ Compare(method, a.elems[j], a.elems[k]) < 0
                 \/ (Compare(method, a.elems[j], a.elems[k]) = 0 /\ j < k)})

\* C1: sort is stable: every element lands behind exactly the elements that
\* compare smaller and those that compare equal and had a lower index
C1_SortStable ==
  (sort_pc = "done" /\ ~JS_IsException(ret)) =>
    LET a == View(pre_obj)
    IN  \A k \in Sortable(a) :
          View(this_obj).elems[StableRank(a, call.method, k)] = a.elems[k]

\* [{k:2}, {k:1,v:'a'}, {k:1,v:'b'}] sorted by k: the two equal keys moved
\* and kept their order
C1_Witness ==
  /\ sort_pc = "done"
  /\ call.method = "byKey"
  /\ View(pre_obj) = ViewOf(<<JS_MKOBJ(21), JS_MKOBJ(11), JS_MKOBJ(12)>>)
  /\ View(this_obj) = ViewOf(<<JS_MKOBJ(11), JS_MKOBJ(12), JS_MKOBJ(21)>>)

(***************************************************************************)
(* js_array_pop(this_val, shift) on a receiver of small length             *)
(***************************************************************************)
js_array_pop(p, shift) ==
  LET len == js_get_length64(p).lo
      newLen == IF len > 0 THEN len - 1 ELSE 0
  IN  IF len > 0
      THEN IF js_is_fast_array(p) /\ Len(p.values) = len
           THEN [val |-> IF shift THEN p.values[1] ELSE p.values[len],
                 p |-> JS_SetLength([p EXCEPT !.values = IF shift THEN Tail(p.values)
                                                          ELSE SubSeq(p.values, 1, len - 1)],
                                    I64(newLen))]
           ELSE LET res == JS_GetPropertyInt64(p, IF shift THEN 0 ELSE newLen)
                    c == IF shift THEN JS_CopySubArray(p, 0, 1, len - 1, 1, 1000)
                         ELSE [ret |-> 0, p |-> p]
                IN  IF c.ret < 0 THEN [val |-> JS_EXCEPTION, p |-> c.p]
                    ELSE [val |-> res,
                          p |-> JS_SetLength(JS_DeletePropertyInt64(c.p, newLen), I64(newLen))]
      ELSE [val |-> JS_UNDEFINED, p |-> JS_SetLength(p, I64(newLen))]

(***************************************************************************)
(* JSON.stringify.  heap maps an object id to its class, its indexed       *)
(* elements and its named properties (in creation order); a function is    *)
(* named by a number that says what it computes.  Property keys and the    *)
(* string buffer are strings.                                              *)
(***************************************************************************)
JS_NewFunction(n) == [tag |-> "function", v |-> n]
JS_IsObject(val) == val.tag \in {"object", "function"}
JS_IsFunction(val) == val.tag = "function"
JS_NewStringBuf(str) == [tag |-> "string", str |-> str]

PlainFunction == JS_NewFunction(0)        \* function () {}
ToJSON_42 == JS_NewFunction(1)            \* toJSON() { return 42 }
ToJSON_Other == JS_NewFunction(2)         \* toJSON() { return <the other object> }
ToJSON_Undefined == JS_NewFunction(3)     \* toJSON() {}
Replacer_Identity == JS_NewFunction(10)   \* (k, v) => v
Replacer_Box == JS_NewFunction(11)        \* (k, v) => v === 42 ? <object 2> : v
Replacer_DropOne == JS_NewFunction(12)    \* (k, v) => v === 1 ? undefined : v

\* JS_Call(ctx, f, this_val, argc, argv) for these functions; val is the
\* replacer's second argument
JS_CallFunction(f, this_val, key, val) ==
  CASE f = ToJSON_42 -> JS_NewInt32(42)
    [] f = ToJSON_Other -> JS_MKOBJ(3 - this_val.v)
    [] f = ToJSON_Undefined -> JS_UNDEFINED
    [] f = Replacer_Identity -> val
    [] f = Replacer_Box -> IF val = JS_NewInt32(42) THEN JS_MKOBJ(2) ELSE val
    [] f = Replacer_DropOne -> IF val = JS_NewInt32(1) THEN JS_UNDEFINED ELSE val
    [] OTHER -> JS_UNDEFINED

\* JS_GetProperty(ctx, val, atom) on an own named property
JS_GetProperty(h, val, key) ==
  IF val.tag = "object" /\ \E i \in 1..Len(h[val.v].props) : h[val.v].props[i][1] = key
  THEN h[val.v].props[CHOOSE i \in 1..Len(h[val.v].props) : h[val.v].props[i][1] = key][2]
  ELSE JS_UNDEFINED
\* js_object_keys: the own enumerable string keys, in order
js_object_keys(h, val) == [i \in 1..Len(h[val.v].props) |-> h[val.v].props[i][1]]
JS_IsArray(h, val) == h[val.v].class_id = "Array"
\* JS_GetPropertyInt64(ctx, val, i) on an array of the heap
JS_GetElement(h, val, i) ==
  IF i < Len(h[val.v].elems) /\ h[val.v].elems[i + 1] # HOLE
  THEN h[val.v].elems[i + 1] ELSE JS_UNDEFINED

DigitChars == <<"0", "1", "2", "3", "4", "5", "6", "7", "8", "9">>
RECURSIVE IntStr(_)
\* JS_ToString of a non-negative integer
IntStr(n) == IF n < 10 THEN DigitChars[n + 1] ELSE IntStr(n \div 10) \o DigitChars[(n % 10) + 1]
RECURSIVE SpacesN(_)
\* JS_NewStringLen(ctx, "          ", n)
SpacesN(n) == IF n <= 0 THEN "" ELSE " " \o SpacesN(n - 1)
JS_ToQuotedString(str) == "\"" \o str \o "\""

\* js_json_check with the replacer consulted before toJSON
js_json_check_replacer_first(h, c, holder, val, key) ==
  LET has_replacer == ~JS_IsUndefined(c.replacer_func)
      v1 == IF has_replacer THEN JS_CallFunction(c.replacer_func, holder, key, val) ELSE val
      c1 == IF has_replacer
            THEN <<[fn |-> "replacer", this_val |-> holder, key |-> key, val |-> val]>>
            ELSE <<>>
      f == IF JS_IsObject(v1) THEN JS_GetProperty(h, v1, "toJSON") ELSE JS_UNDEFINED
      v2 == IF JS_IsFunction(f) THEN JS_CallFunction(f, v1, key, JS_UNDEFINED) ELSE v1
      c2 == IF JS_IsFunction(f)
            THEN c1 \o <<[fn |-> "toJSON", this_val |-> v1, key |-> key, val |-> JS_UNDEFINED]>>
            ELSE c1
  IN  [val |-> IF v2.tag \in {"object", "string", "int", "float64", "bool", "null"}
               THEN v2 ELSE JS_UNDEFINED,
       calls |-> c2]

\* js_json_check without the switch on the tag of the result
js_json_check_any_tag(h, c, holder, val, key) ==
  LET f == IF JS_IsObject(val) THEN JS_GetProperty(h, val, "toJSON") ELSE JS_UNDEFINED
      v1 == IF JS_IsFunction(f) THEN JS_CallFunction(f, val, key, JS_UNDEFINED) ELSE val
      c1 == IF JS_IsFunction(f)
            THEN <<[fn |-> "toJSON", this_val |-> val, key |-> key, val |-> JS_UNDEFINED]>>
            ELSE <<>>
      has_replacer == ~JS_IsUndefined(c.replacer_func)
  IN  [val |-> IF has_replacer THEN JS_CallFunction(c.replacer_func, holder, key, v1)
               ELSE v1,
       calls |-> IF has_replacer
                 THEN c1 \o <<[fn |-> "replacer", this_val |-> holder, key |-> key,
                               val |-> v1]>>
                 ELSE c1]

\* js_json_check(ctx, jsc, holder, val, key): the value to serialize, or
\* JS_UNDEFINED, or JS_EXCEPTION, and the calls it made
js_json_check(h, c, holder, val, key) ==
  LET f == IF JS_IsObject(val) THEN JS_GetProperty(h, val, "toJSON") ELSE JS_UNDEFINED
      v1 == IF JS_IsFunction(f) THEN JS_CallFunction(f, val, key, JS_UNDEFINED) ELSE val
      c1 == IF JS_IsFunction(f)
            THEN <<[fn |-> "toJSON", this_val |-> val, key |-> key, val |-> JS_UNDEFINED]>>
            ELSE <<>>
  IN  IF JS_IsException(v1) THEN [val |-> JS_EXCEPTION, calls |-> c1]
      ELSE LET has_replacer == ~JS_IsUndefined(c.replacer_func)
               v2 == IF has_replacer
                     THEN JS_CallFunction(c.replacer_func, holder, key, v1) ELSE v1
               c2 == IF has_replacer
                     THEN c1 \o <<[fn |-> "replacer", this_val |-> holder, key |-> key,
                                   val |-> v1]>>
                     ELSE c1
           IN  [val |-> IF v2.tag \in {"object", "string", "int", "float64", "bool",
                                       "null", "exception"}
                        THEN v2 ELSE JS_UNDEFINED,
                calls |-> c2]

\* the object case entered without the membership test
js_json_to_str_enter_unchecked(c, val) ==
  [ret |-> 0, exception |-> "",
   jsc |-> [c EXCEPT !.stack = js_array_push(c.stack, <<val>>, FALSE, 1000).p]]

\* the object case with the membership test and without the push
js_json_to_str_enter_no_push(c, val) ==
  IF js_array_includes(c.stack, 1, val, 0) = JS_NewBool(TRUE)
  THEN [ret |-> -1, exception |-> "TypeError: circular reference", jsc |-> c]
  ELSE [ret |-> 0, exception |-> "", jsc |-> c]

\* js_json_to_str [434-457]: the membership test on jsc->stack, then the push
js_json_to_str_enter(c, val) ==
  IF js_array_includes(c.stack, 1, val, 0) = JS_NewBool(TRUE)
  THEN [ret |-> -1, exception |-> "TypeError: circular reference", jsc |-> c]
  ELSE LET pushed == js_array_push(c.stack, <<val>>, FALSE, 1000)
       IN  IF JS_IsException(pushed.val)
           THEN [ret |-> -1, exception |-> "InternalError: out of memory", jsc |-> c]
           ELSE [ret |-> 0, exception |-> "", jsc |-> [c EXCEPT !.stack = pushed.p]]

\* js_json_to_str on a value that is not an object [545-570]
js_json_to_str_primitive(val) ==
  CASE val.tag = "string" -> JS_ToQuotedString(IntStr(val.v))
    [] val.tag = "int" -> IntStr(val.v)
    [] val.tag = "bool" -> IF val.v = 1 THEN "true" ELSE "false"
    [] val.tag = "null" -> "null"
    [] OTHER -> ""

\* the gap JS_JSONStringify derives from the space argument [656-682]
\* a string value whose characters are kept one by one
JS_NewStringChars(chars) == [tag |-> "string", chars |-> chars]
\* a Number or String object: the class id and u.object_data
JS_NewPrimitiveObject(class_id, data) ==
  [tag |-> "object", v |-> 0, class_id |-> class_id, object_data |-> data]
JS_IsNumber(val) == val.tag \in {"int", "float64"}
JS_IsString(val) == val.tag = "string"
\* JS_ToInt32Clamp(ctx, &n, val, min, max, 0); a float64 of the model is an
\* integer of 2^31 or more
JS_ToInt32Clamp(val, min, max) ==
  IF val.tag = "float64" THEN max ELSE min_int(max_int(val.v, min), max)
\* js_sub_string(ctx, p, start, end)
js_sub_string(p, start, end) == JS_NewStringChars(SubSeq(p.chars, start + 1, end))
RECURSIVE CharsToStr(_)
\* the text of a string value
CharsToStr(chars) ==
  IF chars = <<>> THEN "" ELSE chars[1] \o CharsToStr(Tail(chars))
StrOf(val) == IF "chars" \in DOMAIN val THEN CharsToStr(val.chars) ELSE val.str

\* the gap without the upper limits
json_gap_unclamped(space0) ==
  LET space == IF JS_IsObject(space0) /\ "class_id" \in DOMAIN space0
                  /\ space0.class_id \in {"JS_CLASS_NUMBER", "JS_CLASS_STRING"}
               THEN space0.object_data ELSE space0
  IN  IF JS_IsNumber(space)
      THEN SpacesN(IF space.tag = "float64" THEN 11 ELSE max_int(space.v, 0))
      ELSE IF JS_IsString(space) THEN StrOf(space)
      ELSE ""
json_gap(space0) ==
  LET space == IF JS_IsObject(space0) /\ "class_id" \in DOMAIN space0
                  /\ space0.class_id \in {"JS_CLASS_NUMBER", "JS_CLASS_STRING"}
               THEN space0.object_data ELSE space0
  IN  IF JS_IsNumber(space)
      THEN SpacesN(JS_ToInt32Clamp(space, 0, 10))
      ELSE IF JS_IsString(space)
      THEN StrOf(js_sub_string(space, 0, min_int(Len(space.chars), 10)))
      ELSE ""

\* the values stringified: object 1 has up to two elements or properties
\* a, b; object 2 has one; either may be an array and may carry a toJSON
JsonKeys == <<"a", "b">>
RECURSIVE NamedProps(_, _)
NamedProps(vals, i) ==
  IF i > Len(vals) THEN <<>>
  ELSE (IF vals[i] = HOLE THEN <<>> ELSE << <<JsonKeys[i], vals[i]>> >>)
       \o NamedProps(vals, i + 1)
MkHeapObject(class, vals, tojson) ==
  [class_id |-> class,
   elems |-> IF class = "Array" THEN vals ELSE <<>>,
   props |-> (IF class = "Object" THEN NamedProps(vals, 1) ELSE <<>>)
             \o (IF tojson = JS_UNDEFINED THEN <<>> ELSE << <<"toJSON", tojson>> >>)]
JsonSlotVals ==
  {HOLE, JS_NewInt32(1), JS_UNDEFINED, PlainFunction, JS_MKOBJ(1), JS_MKOBJ(2)}
Heaps ==
  {[id \in {1, 2} |-> IF id = 1 THEN MkHeapObject(c1, <<a1, b1>>, t1)
                      ELSE MkHeapObject(c2, <<a2>>, t2)] :
     c1 \in {"Array", "Object"}, a1 \in JsonSlotVals,
     b1 \in {HOLE, JS_MKOBJ(2)},
     t1 \in {JS_UNDEFINED, ToJSON_42, ToJSON_Other, ToJSON_Undefined},
     c2 \in {"Array", "Object"}, a2 \in JsonSlotVals,
     t2 \in {JS_UNDEFINED, ToJSON_42, ToJSON_Other}}
\* the replacer and space arguments tried together
ReplacerSpace ==
  {<<JS_UNDEFINED, JS_UNDEFINED>>, <<Replacer_Identity, JS_UNDEFINED>>,
   <<Replacer_Box, JS_UNDEFINED>>, <<JS_UNDEFINED, JS_NewInt32(1)>>}
JSON_WRAPPER == JS_MKOBJ(9)      \* the wrapper object holding the root under ""

InitJson ==
  /\ heap \in Heaps
  /\ \E rs \in ReplacerSpace :
       call = [fn |-> "stringify", obj |-> JS_MKOBJ(1), replacer |-> rs[1],
               space |-> rs[2]]
  /\ json_pc = "idle"
  /\ jsc = <<>>
  /\ frames = <<>>
  /\ cur = <<>>
  /\ calls = <<>>
  /\ current_exception = ""
  /\ parse_s = <<>>
  /\ ret = JS_UNDEFINED
  /\ ArrayIdle
  /\ SortIdle
  /\ IcIdle
  /\ GcIdle

\* JS_JSONStringify up to the first js_json_check [583-690]
JsonStart ==
  /\ call.fn = "stringify"
  /\ json_pc = "idle"
  /\ jsc' = [replacer_func |-> IF JS_IsFunction(call.replacer) THEN call.replacer
                               ELSE JS_UNDEFINED,
             stack |-> NewFastArray(<<>>, 0, 0),
             property_list |-> JS_UNDEFINED,
             gap |-> json_gap(call.space),
             b |-> ""]
  /\ cur' = [holder |-> JSON_WRAPPER, val |-> call.obj, key |-> "", indent |-> ""]
  /\ json_pc' = "check"
  /\ UNCHANGED <<heap, frames, calls, current_exception, call, ret, outside_stringify>>

\* js_json_check on the value visited, and what its caller does with the
\* result: JS_JSONStringify [691-697] for the root, the array loop [476-482]
\* or the object loop [510-524] of js_json_to_str otherwise
JsonCheck ==
  /\ json_pc = "check"
  /\ \E r \in {js_json_check(heap, jsc, cur.holder, cur.val, cur.key)} :
       /\ calls' = calls \o r.calls
       /\ IF JS_IsException(r.val)
          THEN /\ json_pc' = "done"
               /\ ret' = JS_EXCEPTION
               /\ UNCHANGED <<jsc, cur, frames>>
          ELSE IF frames = <<>>
          THEN /\ json_pc' = IF JS_IsUndefined(r.val) THEN "done" ELSE "to_str"
               /\ cur' = [cur EXCEPT !.val = r.val]
               /\ UNCHANGED <<jsc, frames, ret>>
          ELSE IF frames[Len(frames)].is_array
          THEN /\ json_pc' = "to_str"
               /\ cur' = [cur EXCEPT !.val = IF JS_IsUndefined(r.val) THEN JS_NULL ELSE r.val]
               /\ UNCHANGED <<jsc, frames, ret>>
          ELSE IF JS_IsUndefined(r.val)
          THEN /\ json_pc' = "next"
               /\ UNCHANGED <<jsc, cur, frames, ret>>
          ELSE LET f == frames[Len(frames)]
               IN  /\ json_pc' = "to_str"
                   /\ cur' = [cur EXCEPT !.val = r.val]
                   /\ jsc' = [jsc EXCEPT !.b = @ \o (IF f.has_content THEN "," ELSE "")
                                                \o f.sep \o JS_ToQuotedString(cur.key)
                                                \o ":" \o f.sep1]
                   \* has_content is set once js_json_to_str has returned 0;
                   \* when it returns -1 the frame is abandoned
                   /\ frames' = [frames EXCEPT ![Len(frames)].has_content = TRUE]
                   /\ UNCHANGED ret
  /\ UNCHANGED <<heap, current_exception, call, outside_stringify>>

\* js_json_to_str on the value [404-464, 492-500, 545-570]: a primitive is
\* appended; an object is tested against the stack, pushed and opened
JsonToStr ==
  /\ json_pc = "to_str"
  /\ IF cur.val.tag = "object"
     THEN \E r \in {js_json_to_str_enter(jsc, cur.val)} :
            IF r.ret < 0
            THEN /\ json_pc' = "done"
                 /\ ret' = JS_EXCEPTION
                 /\ current_exception' = r.exception
                 /\ jsc' = r.jsc
                 /\ UNCHANGED frames
            ELSE LET is_array == JS_IsArray(heap, cur.val)
                     tab == IF is_array THEN <<>> ELSE js_object_keys(heap, cur.val)
                     indent1 == cur.indent \o jsc.gap
                 IN  /\ json_pc' = "next"
                     /\ jsc' = [r.jsc EXCEPT !.b = @ \o (IF is_array THEN "[" ELSE "{")]
                     /\ frames' = Append(frames,
                          [val |-> cur.val, is_array |-> is_array, i |-> 0,
                           len |-> IF is_array THEN Len(heap[cur.val.v].elems) ELSE Len(tab),
                           tab |-> tab, has_content |-> FALSE,
                           indent |-> cur.indent, indent1 |-> indent1,
                           sep |-> IF jsc.gap # "" THEN "\n" \o indent1 ELSE "",
                           sep1 |-> IF jsc.gap # "" THEN " " ELSE ""])
                     /\ UNCHANGED <<ret, current_exception>>
     ELSE /\ json_pc' = "next"
          /\ jsc' = [jsc EXCEPT !.b = @ \o js_json_to_str_primitive(cur.val)]
          /\ UNCHANGED <<frames, ret, current_exception>>
  /\ UNCHANGED <<heap, cur, calls, call, outside_stringify>>

\* one turn of the array loop [465-475] or the object loop [502-509], up to
\* the call of js_json_check
JsonProperty ==
  /\ json_pc = "next"
  /\ frames # <<>>
  /\ LET f == frames[Len(frames)]
     IN  /\ f.i < f.len
         /\ IF f.is_array
            THEN /\ jsc' = [jsc EXCEPT !.b = @ \o (IF f.i > 0 THEN "," ELSE "") \o f.sep]
                 /\ cur' = [holder |-> f.val, val |-> JS_GetElement(heap, f.val, f.i),
                            key |-> IntStr(f.i), indent |-> f.indent1]
            ELSE /\ jsc' = jsc
                 /\ cur' = [holder |-> f.val,
                            val |-> JS_GetProperty(heap, f.val, f.tab[f.i + 1]),
                            key |-> f.tab[f.i + 1], indent |-> f.indent1]
         /\ frames' = [frames EXCEPT ![Len(frames)].i = f.i + 1]
  /\ json_pc' = "check"
  /\ UNCHANGED <<heap, calls, current_exception, call, ret, outside_stringify>>

\* the end of the loop: the closing bracket, the pop, return 0 [486-490, 530-544]
JsonClose ==
  /\ json_pc = "next"
  /\ frames # <<>>
  /\ LET f == frames[Len(frames)]
     IN  /\ f.i >= f.len
         /\ jsc' = [jsc EXCEPT
                      !.b = @ \o (IF (IF f.is_array THEN f.len > 0 ELSE f.has_content)
                                     /\ jsc.gap # ""
                                  THEN "\n" \o f.indent ELSE "")
                              \o (IF f.is_array THEN "]" ELSE "}"),
                      !.stack = js_array_pop(jsc.stack, FALSE).p]
  /\ frames' = SubSeq(frames, 1, Len(frames) - 1)
  /\ UNCHANGED <<json_pc, heap, cur, calls, current_exception, call, ret, outside_stringify>>

\* the outermost js_json_to_str has returned 0: string_buffer_end [698-715]
JsonFinish ==
  /\ json_pc = "next"
  /\ frames = <<>>
  /\ ret' = JS_NewStringBuf(jsc.b)
  /\ json_pc' = "done"
  /\ UNCHANGED <<heap, jsc, frames, cur, calls, current_exception, call, outside_stringify>>

NextJson == JsonStart \/ JsonCheck \/ JsonToStr \/ JsonProperty \/ JsonClose \/ JsonFinish

SpecJson == InitJson /\ [][NextJson]_vars

(***************************************************************************)
(* Claims on JSON.stringify (specification SpecJson).                      *)
(***************************************************************************)
\* val is an object whose serialization has started and not finished
BeingSerialized(val) == \E i \in 1..Len(frames) : frames[i].val = val

\* C3: when js_json_to_str reaches an object that is being serialized, that
\* step ends stringify with the TypeError "circular reference" and returns
\* JS_EXCEPTION; the stack, the string buffer and the open frames are as
\* they were before the step
C3_CircularReference ==
  [][(json_pc = "to_str" /\ cur.val.tag = "object" /\ BeingSerialized(cur.val)) =>
       /\ json_pc' = "done"
       /\ ret' = JS_EXCEPTION
       /\ current_exception' = "TypeError: circular reference"
       /\ jsc' = jsc
       /\ frames' = frames]_vars

\* obj = {a: obj}: the error comes after '{"a":' and nothing of the second
\* visit of obj is in the buffer
C3_Witness ==
  /\ json_pc = "done"
  /\ heap[1].class_id = "Object"
  /\ heap[1].props = << <<"a", JS_MKOBJ(1)>> >>
  /\ call.replacer = JS_UNDEFINED
  /\ call.space = JS_UNDEFINED
  /\ ret = JS_EXCEPTION
  /\ current_exception = "TypeError: circular reference"
  /\ jsc.b = "{\"a\":"
  /\ View(jsc.stack) = ViewOf(<<JS_MKOBJ(1)>>)

\* a cycle through an array and a second object is found as well
C3_WitnessArrayCycle ==
  /\ json_pc = "done"
  /\ heap[1].class_id = "Array"
  /\ heap[1].elems = <<JS_NewInt32(1), JS_MKOBJ(2)>>
  /\ heap[2].props = << <<"a", JS_MKOBJ(1)>> >>
  /\ heap[1].props = <<>>
  /\ call.replacer = JS_UNDEFINED
  /\ call.space = JS_UNDEFINED
  /\ ret = JS_EXCEPTION
  /\ jsc.b = "[1,{\"a\":"

HasToJSON(val) ==
  /\ val.tag = "object"
  /\ \E i \in 1..Len(heap[val.v].props) :
       heap[val.v].props[i][1] = "toJSON" /\ heap[val.v].props[i][2].tag = "function"
ToJSONOf(val) ==
  heap[val.v].props[CHOOSE i \in 1..Len(heap[val.v].props) :
                      heap[val.v].props[i][1] = "toJSON"][2]

\* C4: a visit of an object with a callable toJSON calls toJSON once, with
\* the key, before the replacer; the replacer is given toJSON's result, and
\* the value that goes on to be serialized is the last result
C4_ToJSONBeforeReplacer ==
  [][json_pc = "check" =>
       LET has_toJSON == HasToJSON(cur.val)
           replaced == IF has_toJSON
                       THEN JS_CallFunction(ToJSONOf(cur.val), cur.val, cur.key, JS_UNDEFINED)
                       ELSE cur.val
           has_replacer == call.replacer.tag = "function"
           final == IF has_replacer
                    THEN JS_CallFunction(call.replacer, cur.holder, cur.key, replaced)
                    ELSE replaced
           made == SubSeq(calls', Len(calls) + 1, Len(calls'))
       IN  /\ made = (IF has_toJSON
                      THEN <<[fn |-> "toJSON", this_val |-> cur.val, key |-> cur.key,
                              val |-> JS_UNDEFINED]>>
                      ELSE <<>>)
                     \o (IF has_replacer
                         THEN <<[fn |-> "replacer", this_val |-> cur.holder,
                                 key |-> cur.key, val |-> replaced]>>
                         ELSE <<>>)
           /\ final.tag \in {"object", "int", "null"} =>
                json_pc' = "to_str" /\ cur'.val = final]_vars

\* JSON.stringify({a:1, toJSON(){return 42}}) is "42" after one toJSON call
C4_Witness ==
  /\ json_pc = "done"
  /\ heap[1].class_id = "Object"
  /\ heap[1].props = << <<"a", JS_NewInt32(1)>>, <<"toJSON", ToJSON_42>> >>
  /\ call.replacer = JS_UNDEFINED
  /\ ret = JS_NewStringBuf("42")
  /\ calls = <<[fn |-> "toJSON", this_val |-> JS_MKOBJ(1), key |-> "",
                val |-> JS_UNDEFINED]>>

\* with a replacer: toJSON of the property b is called with "b", then the
\* replacer gets 42 and its result, object 2, is what is serialized
C4_WitnessReplacer ==
  /\ json_pc = "done"
  /\ call.replacer = Replacer_Box
  /\ heap[1].class_id = "Object"
  /\ heap[1].props = << <<"b", JS_MKOBJ(2)>> >>
  /\ heap[2].class_id = "Array"
  /\ heap[2].elems = <<JS_NewInt32(1)>>
  /\ heap[2].props = << <<"toJSON", ToJSON_42>> >>
  /\ ret = JS_NewStringBuf("{\"b\":[1]}")
  /\ \E i \in 1..(Len(calls) - 1) :
       /\ calls[i] = [fn |-> "toJSON", this_val |-> JS_MKOBJ(2), key |-> "b",
                      val |-> JS_UNDEFINED]
       /\ calls[i + 1] = [fn |-> "replacer", this_val |-> JS_MKOBJ(1), key |-> "b",
                          val |-> JS_NewInt32(42)]

(***************************************************************************)
(* JSON.parse.  The input is the token sequence json_next_token yields;    *)
(* the value built is a tree: an Array with its elements, an Object with   *)
(* its properties in creation order.                                       *)
(***************************************************************************)
Tok(val) == [val |-> val, str |-> "", num |-> 0]
TokString(str) == [val |-> "TOK_STRING", str |-> str, num |-> 0]
TokNumber(num) == [val |-> "TOK_NUMBER", str |-> "", num |-> num]
TokIdent(atom) == [val |-> "TOK_IDENT", str |-> atom, num |-> 0]
TOK_EOF == Tok("TOK_EOF")

JS_NewArrayOf(elems) == [tag |-> "Array", elems |-> elems]
JS_NewObjectOf(props) == [tag |-> "Object", props |-> props]

\* s->token
Token(s) == IF s.pos <= Len(s.buf) THEN s.buf[s.pos] ELSE TOK_EOF
\* json_next_token(s) on an input that lexes
json_next_token(s) == [s EXCEPT !.pos = min_int(@ + 1, Len(s.buf) + 1)]
ParseFail(s, msg) == [val |-> JS_EXCEPTION, s |-> s, err |-> msg]

json_parse_expect(s, tok) ==
  IF Token(s).val # tok
  THEN [ret |-> -1, s |-> s, err |-> "expecting '" \o tok \o "'"]
  ELSE [ret |-> 0, s |-> json_next_token(s), err |-> ""]

\* JS_DefinePropertyValue(ctx, val, prop_name, prop_val, JS_PROP_C_W_E)
JS_DefinePropertyValue(val, prop_name, prop_val) ==
  IF \E i \in 1..Len(val.props) : val.props[i][1] = prop_name
  THEN [val EXCEPT !.props = [i \in 1..Len(val.props) |->
                                IF val.props[i][1] = prop_name
                                THEN <<prop_name, prop_val>> ELSE val.props[i]]]
  ELSE [val EXCEPT !.props = Append(@, <<prop_name, prop_val>>)]
\* JS_DefinePropertyValueUint32(ctx, val, idx, el, JS_PROP_C_W_E), idx = length
JS_DefinePropertyValueUint32(val, idx, el) == [val EXCEPT !.elems = Append(@, el)]

RECURSIVE json_parse_value(_)
RECURSIVE json_parse_object_loop(_, _)
RECURSIVE json_parse_array_loop(_, _, _)

\* the for (;;) of the '{' case [68-101]
json_parse_object_loop(s, val) ==
  IF ~(Token(s).val = "TOK_STRING" \/ (s.ext_json /\ Token(s).val = "TOK_IDENT"))
  THEN ParseFail(s, "expecting property name")
  ELSE LET prop_name == Token(s).str
           e == json_parse_expect(json_next_token(s), ":")
       IN  IF e.ret < 0 THEN ParseFail(e.s, e.err)
           ELSE LET pv == json_parse_value(e.s)
                IN  IF JS_IsException(pv.val) THEN pv
                    ELSE LET val1 == JS_DefinePropertyValue(val, prop_name, pv.val)
                             s2 == json_next_token(pv.s)
                         IN  IF Token(pv.s).val # ","
                             THEN [val |-> val1, s |-> pv.s, err |-> ""]
                             ELSE IF s2.ext_json /\ Token(s2).val = "}"
                             THEN [val |-> val1, s |-> s2, err |-> ""]
                             ELSE json_parse_object_loop(s2, val1)

\* the for (;;) of the '[' case [119-133]
json_parse_array_loop(s, val, idx) ==
  LET el == json_parse_value(s)
  IN  IF JS_IsException(el.val) THEN el
      ELSE LET val1 == JS_DefinePropertyValueUint32(val, idx, el.val)
               s2 == json_next_token(el.s)
           IN  IF Token(el.s).val # ","
               THEN [val |-> val1, s |-> el.s, err |-> ""]
               ELSE IF s2.ext_json /\ Token(s2).val = "]"
               THEN [val |-> val1, s |-> s2, err |-> ""]
               ELSE json_parse_array_loop(s2, val1, idx + 1)

\* json_parse_value(s): the value or JS_EXCEPTION, the parse state after it
\* and the error reported
json_parse_value(s) ==
  LET tok == Token(s)
      s1 == json_next_token(s)
  IN  CASE tok.val = "{" ->
             LET r == IF Token(s1).val # "}"
                      THEN json_parse_object_loop(s1, JS_NewObjectOf(<<>>))
                      ELSE [val |-> JS_NewObjectOf(<<>>), s |-> s1, err |-> ""]
                 e == json_parse_expect(r.s, "}")
             IN  IF JS_IsException(r.val) THEN r
                 ELSE IF e.ret < 0 THEN ParseFail(e.s, e.err)
                 ELSE [val |-> r.val, s |-> e.s, err |-> ""]
        [] tok.val = "[" ->
             LET r == IF Token(s1).val # "]"
                      THEN json_parse_array_loop(s1, JS_NewArrayOf(<<>>), 0)
                      ELSE [val |-> JS_NewArrayOf(<<>>), s |-> s1, err |-> ""]
                 e == json_parse_expect(r.s, "]")
             IN  IF JS_IsException(r.val) THEN r
                 ELSE IF e.ret < 0 THEN ParseFail(e.s, e.err)
                 ELSE [val |-> r.val, s |-> e.s, err |-> ""]
        [] tok.val = "TOK_STRING" -> [val |-> JS_NewStringBuf(tok.str), s |-> s1, err |-> ""]
        [] tok.val = "TOK_NUMBER" -> [val |-> JS_NewInt32(tok.num), s |-> s1, err |-> ""]
        [] tok.val = "TOK_IDENT" /\ tok.str \in {"false", "true"} ->
             [val |-> JS_NewBool(tok.str = "true"), s |-> s1, err |-> ""]
        [] tok.val = "TOK_IDENT" /\ tok.str = "null" -> [val |-> JS_NULL, s |-> s1, err |-> ""]
        [] tok.val = "TOK_EOF" -> ParseFail(s, "unexpected end of input")
        [] OTHER -> ParseFail(s, "unexpected token")

\* JS_ParseJSON2 with s->ext_json never set
JS_ParseJSON2_strict(buf, flags) ==
  LET r == json_parse_value([buf |-> buf, pos |-> 1, ext_json |-> FALSE])
  IN  IF JS_IsException(r.val) THEN r
      ELSE IF Token(r.s) # TOK_EOF THEN ParseFail(r.s, "unexpected data at the end")
      ELSE r

\* JS_ParseJSON2(ctx, buf, buf_len, filename, flags)
JS_ParseJSON2(buf, flags) ==
  LET r == json_parse_value([buf |-> buf, pos |-> 1,
                             ext_json |-> "JS_PARSE_JSON_EXT" \in flags])
  IN  IF JS_IsException(r.val) THEN r
      ELSE IF Token(r.s) # TOK_EOF THEN ParseFail(r.s, "unexpected data at the end")
      ELSE r

\* the JSON texts parsed: the text of a value of two levels, with up to
\* MaxExtraCommas commas inserted between its tokens
DocKeys == <<"a", "b", "c", "d">>
DocInner ==
  {JS_NewInt32(1), JS_NewStringBuf("x"), JS_NewArrayOf(<<>>),
   JS_NewArrayOf(<<JS_NewInt32(1)>>), JS_NewObjectOf(<< <<"a", JS_NewInt32(1)>> >>)}
Docs ==
  DocInner
  \cup {JS_NewArrayOf(q) : q \in SeqsUpTo(DocInner, MaxElems)}
  \cup {JS_NewObjectOf([i \in 1..Len(q) |-> <<DocKeys[i], q[i]>>]) :
          q \in SeqsUpTo(DocInner, MaxElems)}

RECURSIVE TokensOf(_)
RECURSIVE TokensOfElems(_, _)
RECURSIVE TokensOfProps(_, _)
TokensOfElems(elems, i) ==
  IF i > Len(elems) THEN <<>>
  ELSE (IF i > 1 THEN <<Tok(",")>> ELSE <<>>) \o TokensOf(elems[i])
       \o TokensOfElems(elems, i + 1)
TokensOfProps(props, i) ==
  IF i > Len(props) THEN <<>>
  ELSE (IF i > 1 THEN <<Tok(",")>> ELSE <<>>)
       \o <<TokString(props[i][1]), Tok(":")>> \o TokensOf(props[i][2])
       \o TokensOfProps(props, i + 1)
\* the tokens of the JSON text of a value
TokensOf(v) ==
  CASE v.tag = "Array" -> <<Tok("[")>> \o TokensOfElems(v.elems, 1) \o <<Tok("]")>>
    [] v.tag = "Object" -> <<Tok("{")>> \o TokensOfProps(v.props, 1) \o <<Tok("}")>>
    [] v.tag = "string" -> <<TokString(v.str)>>
    [] OTHER -> <<TokNumber(v.v)>>

RECURSIVE InsertCommas(_, _, _)
\* a comma put into each gap of extra; gap g lies behind the g-th token
InsertCommas(tokens, extra, g) ==
  (IF g \in extra THEN <<Tok(",")>> ELSE <<>>)
  \o (IF g < Len(tokens) THEN <<tokens[g + 1]>> \o InsertCommas(tokens, extra, g + 1)
      ELSE <<>>)

RECURSIVE SubsetsUpTo(_, _)
\* the subsets of S with at most k elements
SubsetsUpTo(S, k) ==
  IF k = 0 THEN {{}}
  ELSE LET R == SubsetsUpTo(S, k - 1) IN R \cup {r \cup {x} : r \in R, x \in S}

InitParse ==
  /\ \E doc \in Docs, ext \in BOOLEAN :
       \E extra \in SubsetsUpTo(0..Len(TokensOf(doc)), MaxExtraCommas) :
         call = [fn |-> "parse", doc |-> doc, extra |-> extra,
                 buf |-> InsertCommas(TokensOf(doc), extra, 0),
                 flags |-> IF ext THEN {"JS_PARSE_JSON_EXT"} ELSE {}]
  /\ json_pc = "idle"
  /\ heap = <<>>
  /\ jsc = <<>>
  /\ frames = <<>>
  /\ cur = <<>>
  /\ calls = <<>>
  /\ current_exception = ""
  /\ parse_s = <<>>
  /\ ret = JS_UNDEFINED
  /\ ArrayIdle
  /\ SortIdle
  /\ IcIdle
  /\ GcIdle

\* JS_ParseJSON2 on the input
JsonParse ==
  /\ call.fn = "parse"
  /\ json_pc = "idle"
  /\ \E r \in {JS_ParseJSON2(call.buf, call.flags)} :
       /\ ret' = r.val
       /\ current_exception' = r.err
       /\ parse_s' = r.s
  /\ json_pc' = "done"
  /\ UNCHANGED <<heap, jsc, frames, cur, calls, call, outside_json>>

NextParse == JsonParse

SpecParse == InitParse /\ [][NextParse]_vars

(***************************************************************************)
(* Claims on JSON.parse (specification SpecParse).                         *)
(***************************************************************************)
ExtJson == "JS_PARSE_JSON_EXT" \in call.flags
\* the gap g of the text lies behind an element or member and before the
\* closing bracket of its array or object
TrailingGap(tokens, g) ==
  /\ g >= 1
  /\ g < Len(tokens)
  /\ tokens[g].val \in {"TOK_STRING", "TOK_NUMBER", "TOK_IDENT", "}", "]"}
  /\ tokens[g + 1].val \in {"}", "]"}
CommaBeforeCloser(buf) ==
  \E i \in 1..(Len(buf) - 1) : buf[i].val = "," /\ buf[i + 1].val \in {"}", "]"}

Text_a_1_comma ==
  <<Tok("{"), TokString("a"), Tok(":"), TokNumber(1), Tok(","), Tok("}")>>
Text_1_comma == <<Tok("["), TokNumber(1), Tok(","), Tok("]")>>

C5_WitnessStrict ==
  /\ json_pc = "done"
  /\ call.buf = Text_a_1_comma
  /\ ~ExtJson
  /\ ret = JS_EXCEPTION
  /\ current_exception = "expecting property name"

\* '[1,]' parsed with the flag is an array of length 1
C5_WitnessArray ==
  /\ json_pc = "done"
  /\ call.buf = Text_1_comma
  /\ ExtJson
  /\ ret = JS_NewArrayOf(<<JS_NewInt32(1)>>)

\* '[,]' is rejected with the flag too: the comma follows no element
C5_LeadingCommaRejected ==
  /\ json_pc = "done"
  /\ call.buf = <<Tok("["), Tok(","), Tok("]")>>
  /\ ExtJson
  /\ ret = JS_EXCEPTION

(***************************************************************************)
(* Inline cache: one InlineCacheRingSlot, a ring of IC_CACHE_ITEM_CAPACITY *)
(* (shape, prop_offset) items and the index of the last hit.  A shape is   *)
(* named by a positive number, 0 is the NULL shape of an unused item.      *)
(***************************************************************************)
IC_CACHE_ITEM_CAPACITY == 4
RingPositions == 0..(IC_CACHE_ITEM_CAPACITY - 1)
EmptyRing ==
  [index |-> 0, buffer |-> [i \in RingPositions |-> [shape |-> 0, prop_offset |-> 0]]]
\* the offset the full walk of the shape's property list finds
OffsetOf(shape) == shape + 10

\* a lookup that probes only the item at cr->index
get_ic_prop_offset_first_only(cr, shape) ==
  IF cr.buffer[cr.index].shape = shape
  THEN [ret |-> cr.buffer[cr.index].prop_offset, cr |-> cr]
  ELSE [ret |-> -1, cr |-> cr]

RECURSIVE ic_probe(_, _, _)
\* the for (;;) of get_ic_prop_offset [48-60]
ic_probe(cr, shape, i) ==
  IF cr.buffer[i].shape = shape
  THEN [ret |-> cr.buffer[i].prop_offset, cr |-> [cr EXCEPT !.index = i]]
  ELSE IF (i + 1) % IC_CACHE_ITEM_CAPACITY = cr.index
  THEN [ret |-> -1, cr |-> cr]
  ELSE ic_probe(cr, shape, (i + 1) % IC_CACHE_ITEM_CAPACITY)

\* a lookup that leaves cr->index alone on a hit
get_ic_prop_offset_keep_index(cr, shape) ==
  [ret |-> ic_probe(cr, shape, cr.index).ret, cr |-> cr]

\* get_ic_prop_offset(ic, cache_offset, shape) on the slot cr: the offset or
\* -1, and the slot afterwards
get_ic_prop_offset(cr, shape) == ic_probe(cr, shape, cr.index)

\* position i becomes the most recently used
Touch(recency, i) == SelectSeq(recency, LAMBDA x : x # i) \o <<i>>

\* add_ic_slot: the positions the new item may go to: an unused one while
\* there is one, else the least recently used
Victims(cr, recency) ==
  IF \E i \in RingPositions : cr.buffer[i].shape = 0
  THEN {i \in RingPositions : cr.buffer[i].shape = 0}
  ELSE {Head(recency)}

InitIc ==
  /\ ic_n \in 1..(IC_CACHE_ITEM_CAPACITY + 1)
  /\ ic_cr = EmptyRing
  /\ ic_recency = <<>>
  /\ ic_hist = [lookups |-> 0, inserted |-> {}, evicted |-> {}, warm_misses |-> 0,
                eviction_misses |-> 0, last_shape |-> 0, last_ret |-> 0]
  /\ call = NoCall
  /\ ret = JS_UNDEFINED
  /\ ArrayIdle
  /\ SortIdle
  /\ JsonIdle
  /\ GcIdle
  /\ ShapeIdle

\* the shapes arrive in rotation 1, 2, .., n, 1, ..; while they all fit into
\* the ring, any order is tried as well
NextShapes ==
  IF ic_n <= IC_CACHE_ITEM_CAPACITY THEN 1..ic_n ELSE {(ic_hist.lookups % ic_n) + 1}

\* a property access through the slot that hits
IcHit ==
  /\ ic_n > 0
  /\ ic_hist.lookups < MaxLookups
  /\ \E shape \in NextShapes :
       \E r \in {get_ic_prop_offset(ic_cr, shape)} :
         /\ r.ret >= 0
         /\ ic_cr' = r.cr
         /\ ic_recency' = Touch(ic_recency, r.cr.index)
         /\ ic_hist' = [ic_hist EXCEPT !.lookups = @ + 1, !.last_shape = shape,
                                       !.last_ret = r.ret]
  /\ UNCHANGED <<ic_n, outside_ic>>

\* a property access through the slot that misses: the shape's property list
\* is walked and the result inserted with add_ic_slot
IcMissInsert ==
  /\ ic_n > 0
  /\ ic_hist.lookups < MaxLookups
  /\ \E shape \in NextShapes :
       \E r \in {get_ic_prop_offset(ic_cr, shape)} :
         /\ r.ret < 0
         /\ \E v \in Victims(r.cr, ic_recency) :
              /\ ic_cr' = [r.cr EXCEPT !.buffer[v] =
                             [shape |-> shape, prop_offset |-> OffsetOf(shape)]]
              /\ ic_recency' = Touch(ic_recency, v)
              /\ ic_hist' = [ic_hist EXCEPT
                               !.lookups = @ + 1,
                               !.inserted = @ \cup {shape},
                               !.evicted = (@ \ {shape})
                                           \cup ({r.cr.buffer[v].shape} \ {0}),
                               !.warm_misses =
                                  IF shape \in ic_hist.inserted THEN @ + 1 ELSE @,
                               !.eviction_misses =
                                  IF shape \in ic_hist.evicted THEN @ + 1 ELSE @,
                               !.last_shape = shape,
                               !.last_ret = r.ret]
  /\ UNCHANGED <<ic_n, outside_ic>>

NextIc == IcHit \/ IcMissInsert

SpecIc == InitIc /\ [][NextIc]_vars

(***************************************************************************)
(* Claims on the inline cache (specification SpecIc).                      *)
(***************************************************************************)
\* C9: with at most IC_CACHE_ITEM_CAPACITY shapes, a shape that has been
\* inserted is found by every later lookup, with its offset, and nothing is
\* ever evicted; with one shape more, in rotation, a lookup of the second
\* round misses because its shape was evicted
C9_RingCapacity ==
  /\ (ic_n >= 1 /\ ic_n <= IC_CACHE_ITEM_CAPACITY) =>
       /\ \A shape \in ic_hist.inserted :
            get_ic_prop_offset(ic_cr, shape).ret = OffsetOf(shape)
       /\ ic_hist.evicted = {}
       /\ ic_hist.warm_misses = 0
  /\ (ic_n = IC_CACHE_ITEM_CAPACITY + 1 /\ ic_hist.lookups >= 2 * ic_n) =>
       ic_hist.eviction_misses >= 1

\* four shapes in rotation: the second round is all hits
C9_Witness ==
  /\ ic_n = IC_CACHE_ITEM_CAPACITY
  /\ ic_hist.lookups = 2 * ic_n
  /\ ic_hist.inserted = 1..ic_n
  /\ ic_hist.last_ret = OffsetOf(ic_hist.last_shape)

\* five shapes in rotation: a lookup of the second round misses
C9_WitnessEviction ==
  /\ ic_n = IC_CACHE_ITEM_CAPACITY + 1
  /\ ic_hist.lookups = 2 * ic_n
  /\ ic_hist.eviction_misses >= 1
  /\ ic_hist.last_ret = -1

(***************************************************************************)
(* Reference counting.  The heap is an acyclic graph of objects 1..n, an   *)
(* object referring only to objects of a higher number; gc_owners counts   *)
(* the references to each object held on the stack or in C variables.      *)
(* JS_FreeValueRT queues an object whose count reaches zero on             *)
(* gc_zero_ref_count_list; free_zero_refcount, entered when gc_phase is    *)
(* JS_GC_PHASE_NONE, finalizes the queue one object at a time.             *)
(***************************************************************************)
ObjIds == 1..MaxObjects
\* the children of a set kept in order
RECURSIVE SetToSeq(_)
SetToSeq(S) ==
  IF S = {} THEN <<>>
  ELSE LET x == CHOOSE y \in S : \A z \in S : y <= z IN <<x>> \o SetToSeq(S \ {x})
Remove(list, o) == SelectSeq(list, LAMBDA x : x # o)
InDegree(children, o) == Cardinality({p \in ObjIds : o \in children[p]})

\* a release that frees the object while one reference to it is left
JS_FreeValueRT_early(st, o) ==
  LET n == st.objs[o].ref_count - 1
      objs1 == [st.objs EXCEPT ![o].ref_count = n]
  IN  IF n <= 1
      THEN [objs |-> objs1, obj_list |-> Remove(st.obj_list, o),
            zero_list |-> <<o>> \o st.zero_list]
      ELSE [st EXCEPT !.objs = objs1]

\* JS_FreeValueRT(rt, v) on an object, up to the call of free_zero_refcount:
\* --ref_count, and at zero list_del, list_add(gc_zero_ref_count_list)
JS_FreeValueRT(st, o) ==
  LET n == st.objs[o].ref_count - 1
      objs1 == [st.objs EXCEPT ![o].ref_count = n]
  IN  IF n <= 0
      THEN [objs |-> objs1, obj_list |-> Remove(st.obj_list, o),
            zero_list |-> <<o>> \o st.zero_list]
      ELSE [st EXCEPT !.objs = objs1]

RECURSIVE free_children(_, _)
\* free_object: JS_FreeValueRT on each reference the object holds
free_children(st, cs) ==
  IF cs = <<>> THEN st ELSE free_children(JS_FreeValueRT(st, Head(cs)), Tail(cs))

\* free_gc_object(rt, gp): the references are released, the object leaves
\* its list and its memory is freed
free_gc_object(st, o) ==
  LET st1 == free_children(st, SetToSeq(st.objs[o].children))
  IN  [objs |-> [st1.objs EXCEPT ![o].freed = TRUE],
       obj_list |-> st1.obj_list,
       zero_list |-> Remove(st1.zero_list, o)]

GcState == [objs |-> gc_objs, obj_list |-> gc_obj_list, zero_list |-> gc_zero_ref_count_list]

InitGc ==
  /\ \E children \in [ObjIds -> SUBSET ObjIds], owners \in [ObjIds -> 0..1] :
       /\ \A p \in ObjIds : \A c \in children[p] : c > p
       /\ \A o \in ObjIds : InDegree(children, o) + owners[o] >= 1
       /\ gc_objs = [o \in ObjIds |->
                       [ref_count |-> InDegree(children, o) + owners[o],
                        children |-> children[o], freed |-> FALSE]]
       /\ gc_owners = owners
  /\ gc_obj_list = SetToSeq(ObjIds)
  /\ gc_zero_ref_count_list = <<>>
  /\ gc_phase = "JS_GC_PHASE_NONE"
  /\ gc_finalized = [o \in ObjIds |-> 0]
  /\ call = NoCall
  /\ ret = JS_UNDEFINED
  /\ ArrayIdle
  /\ SortIdle
  /\ JsonIdle
  /\ IcIdle

\* JS_DupValue(ctx, v) by a holder of a reference to o
DupValue ==
  /\ gc_phase = "JS_GC_PHASE_NONE"
  /\ \E o \in DOMAIN gc_objs :
       /\ gc_owners[o] >= 1
       /\ gc_owners[o] < MaxOwners
       /\ gc_objs' = [gc_objs EXCEPT ![o].ref_count = @ + 1]
       /\ gc_owners' = [gc_owners EXCEPT ![o] = @ + 1]
  /\ UNCHANGED <<gc_obj_list, gc_zero_ref_count_list, gc_phase, gc_finalized, outside_gc>>

\* JS_FreeValue(ctx, v) by a holder of a reference to o; at zero
\* free_zero_refcount is entered (gc_phase = JS_GC_PHASE_DECREF)
FreeValue ==
  /\ gc_phase = "JS_GC_PHASE_NONE"
  /\ \E o \in DOMAIN gc_objs :
       /\ gc_owners[o] >= 1
       /\ gc_owners' = [gc_owners EXCEPT ![o] = @ - 1]
       /\ \E st \in {JS_FreeValueRT(GcState, o)} :
            /\ gc_objs' = st.objs
            /\ gc_obj_list' = st.obj_list
            /\ gc_zero_ref_count_list' = st.zero_list
            /\ gc_phase' = IF st.zero_list # <<>> THEN "JS_GC_PHASE_DECREF"
                           ELSE "JS_GC_PHASE_NONE"
  /\ UNCHANGED <<gc_finalized, outside_gc>>

\* free_zero_refcount: one turn of the loop, free_gc_object on the first
\* object of gc_zero_ref_count_list
FreeZeroRefcount ==
  /\ gc_phase = "JS_GC_PHASE_DECREF"
  /\ gc_zero_ref_count_list # <<>>
  /\ LET o == Head(gc_zero_ref_count_list)
     IN  /\ \E st \in {free_gc_object(GcState, o)} :
              /\ gc_objs' = st.objs
              /\ gc_obj_list' = st.obj_list
              /\ gc_zero_ref_count_list' = st.zero_list
         /\ gc_finalized' = [gc_finalized EXCEPT ![o] = @ + 1]
  /\ UNCHANGED <<gc_owners, gc_phase, outside_gc>>

\* free_zero_refcount: the list is empty, gc_phase = JS_GC_PHASE_NONE
FreeZeroRefcountDone ==
  /\ gc_phase = "JS_GC_PHASE_DECREF"
  /\ gc_zero_ref_count_list = <<>>
  /\ gc_phase' = "JS_GC_PHASE_NONE"
  /\ UNCHANGED <<gc_objs, gc_owners, gc_obj_list, gc_zero_ref_count_list, gc_finalized,
                 outside_gc>>

NextGc == DupValue \/ FreeValue \/ FreeZeroRefcount \/ FreeZeroRefcountDone

SpecGc == InitGc /\ [][NextGc]_vars

(***************************************************************************)
(* Claims on reference counting (specification SpecGc).                    *)
(***************************************************************************)
\* the objects that hold a reference to o and have not released it
LiveParents(o) == {p \in DOMAIN gc_objs : ~gc_objs[p].freed /\ o \in gc_objs[p].children}
InSeq(list, o) == \E i \in 1..Len(list) : list[i] = o

\* C10: an object is finalized once, when its count is zero and no owner and
\* no unfinalized referrer is left; outside a free pass every object with a
\* zero count has been finalized; during the pass the objects at zero wait,
\* each once, on gc_zero_ref_count_list
C10_FinalizedOnce ==
  \A o \in DOMAIN gc_objs :
    /\ gc_finalized[o] <= 1
    /\ gc_finalized[o] = 1 <=> gc_objs[o].freed
    /\ gc_objs[o].freed =>
         gc_objs[o].ref_count = 0 /\ gc_owners[o] = 0 /\ LiveParents(o) = {}
    /\ ~gc_objs[o].freed =>
         gc_objs[o].ref_count = gc_owners[o] + Cardinality(LiveParents(o))
    /\ (~gc_objs[o].freed /\ gc_objs[o].ref_count = 0) <=>
         InSeq(gc_zero_ref_count_list, o)
    /\ Cardinality({i \in 1..Len(gc_zero_ref_count_list) :
                      gc_zero_ref_count_list[i] = o}) <= 1
    /\ gc_phase = "JS_GC_PHASE_NONE" =>
         /\ gc_zero_ref_count_list = <<>>
         /\ gc_objs[o].ref_count = 0 <=> gc_finalized[o] = 1

\* 1 -> 2 -> 3 held by one reference to 1: its release finalized all three
C10_Witness ==
  /\ gc_phase = "JS_GC_PHASE_NONE"
  /\ DOMAIN gc_objs = 1..3
  /\ gc_objs[1].children = {2}
  /\ gc_objs[2].children = {3}
  /\ \A o \in 1..3 : gc_finalized[o] = 1 /\ gc_objs[o].ref_count = 0

\* inside the pass: 1 is finalized, 2 has reached zero and waits on the list
C10_WitnessQueued ==
  /\ gc_phase = "JS_GC_PHASE_DECREF"
  /\ gc_zero_ref_count_list = <<2>>
  /\ gc_finalized[1] = 1
  /\ gc_finalized[2] = 0
  /\ gc_objs[2].ref_count = 0

\* a shared child outlives one of its two referrers
C10_WitnessShared ==
  /\ gc_phase = "JS_GC_PHASE_NONE"
  /\ DOMAIN gc_objs = 1..3
  /\ gc_objs[1].children = {3}
  /\ gc_objs[2].children = {3}
  /\ gc_finalized[1] = 1
  /\ gc_finalized[2] = 0
  /\ gc_finalized[3] = 0
  /\ gc_objs[3].ref_count = 1

(***************************************************************************)
(* Cycle collection.  JS_RunGC is gc_decref, gc_scan, gc_free_cycles: the  *)
(* references held by the objects of gc_obj_list are taken off the counts  *)
(* and the objects left at zero move to tmp_obj_list; gc_scan puts back    *)
(* what is reachable from an object whose count stayed positive;           *)
(* gc_free_cycles (gc_phase = JS_GC_PHASE_REMOVE_CYCLES) frees what is     *)
(* left on tmp_obj_list.  The pass works on the record                     *)
(*   [objs, obj_list, tmp_list, zero_list, mark, finalized].               *)
(***************************************************************************)
MoveToTail(from, to, o) == [from |-> Remove(from, o), to |-> Append(Remove(to, o), o)]

\* gc_decref_child: p->ref_count--, and a marked object at zero moves to
\* tmp_obj_list
gc_decref_child(cs, c) ==
  LET n == cs.objs[c].ref_count - 1
      cs1 == [cs EXCEPT !.objs[c].ref_count = n]
  IN  IF n = 0 /\ cs.mark[c] = 1
      THEN [cs1 EXCEPT !.obj_list = Remove(cs.obj_list, c),
                       !.tmp_list = Append(cs.tmp_list, c)]
      ELSE cs1

RECURSIVE gc_mark_children(_, _, _)
\* mark_children(rt, p, fn) over the references p holds; fn is named by kind
gc_mark_children(cs, cs_children, kind) ==
  IF cs_children = <<>> THEN cs
  ELSE LET c == Head(cs_children)
           cs1 == CASE kind = "gc_decref_child" -> gc_decref_child(cs, c)
                    [] kind = "gc_scan_incref_child" ->
                         LET n == cs.objs[c].ref_count + 1
                             cs2 == [cs EXCEPT !.objs[c].ref_count = n]
                         IN  IF n = 1
                             THEN [cs2 EXCEPT !.tmp_list = Remove(cs.tmp_list, c),
                                              !.obj_list = Append(cs.obj_list, c),
                                              !.mark[c] = 0]
                             ELSE cs2
                    [] kind = "gc_scan_incref_child2" ->
                         [cs EXCEPT !.objs[c].ref_count = @ + 1]
                    [] OTHER ->   \* JS_FreeValueRT in JS_GC_PHASE_REMOVE_CYCLES
                         [cs EXCEPT !.objs[c].ref_count = @ - 1]
       IN  gc_mark_children(cs1, Tail(cs_children), kind)

ChildrenOf(cs, p) == SetToSeq(cs.objs[p].children)

RECURSIVE gc_decref_loop(_, _)
gc_decref_loop(cs, todo) ==
  IF todo = <<>> THEN cs
  ELSE LET p == Head(todo)
           cs1 == gc_mark_children(cs, ChildrenOf(cs, p), "gc_decref_child")
           cs2 == [cs1 EXCEPT !.mark[p] = 1]
           cs3 == IF cs2.objs[p].ref_count = 0
                  THEN [cs2 EXCEPT !.obj_list = Remove(cs2.obj_list, p),
                                   !.tmp_list = Append(cs2.tmp_list, p)]
                  ELSE cs2
       IN  gc_decref_loop(cs3, Tail(todo))

\* gc_decref(rt)
gc_decref(cs) == gc_decref_loop([cs EXCEPT !.tmp_list = <<>>], cs.obj_list)

RECURSIVE gc_scan_loop(_, _)
\* list_for_each over gc_obj_list, which grows at its tail while it is walked
gc_scan_loop(cs, i) ==
  IF i > Len(cs.obj_list) THEN cs
  ELSE LET p == cs.obj_list[i]
           cs1 == [cs EXCEPT !.mark[p] = 0]
       IN  gc_scan_loop(gc_mark_children(cs1, ChildrenOf(cs1, p), "gc_scan_incref_child"),
                        i + 1)

RECURSIVE gc_scan_restore(_, _)
gc_scan_restore(cs, todo) ==
  IF todo = <<>> THEN cs
  ELSE gc_scan_restore(gc_mark_children(cs, ChildrenOf(cs, Head(todo)),
                                        "gc_scan_incref_child2"), Tail(todo))

\* gc_scan without the walk from the objects that kept a positive count
gc_scan_no_keep(cs) == gc_scan_restore(cs, cs.tmp_list)

\* gc_scan(rt)
gc_scan(cs) ==
  LET cs1 == gc_scan_loop(cs, 1) IN gc_scan_restore(cs1, cs1.tmp_list)

RECURSIVE gc_free_cycles_loop(_)
\* free_gc_object on the first object of tmp_obj_list until it is empty; an
\* object still referred to keeps its memory on gc_zero_ref_count_list
gc_free_cycles_loop(cs) ==
  IF cs.tmp_list = <<>> THEN cs
  ELSE LET p == Head(cs.tmp_list)
           cs1 == gc_mark_children(cs, ChildrenOf(cs, p), "JS_FreeValueRT")
           cs2 == [cs1 EXCEPT !.objs[p].freed = TRUE,
                              !.finalized[p] = @ + 1,
                              !.tmp_list = Remove(cs1.tmp_list, p),
                              !.zero_list = IF cs1.objs[p].ref_count # 0
                                            THEN Append(cs1.zero_list, p)
                                            ELSE cs1.zero_list]
       IN  gc_free_cycles_loop(cs2)

\* gc_free_cycles(rt): the memory kept on gc_zero_ref_count_list is freed last
gc_free_cycles(cs) == [gc_free_cycles_loop(cs) EXCEPT !.zero_list = <<>>]

GcPassState ==
  [objs |-> gc_objs, obj_list |-> gc_obj_list, tmp_list |-> <<>>,
   zero_list |-> gc_zero_ref_count_list,
   mark |-> [o \in DOMAIN gc_objs |-> 0], finalized |-> gc_finalized]

JS_RunGC(cs) == gc_free_cycles(gc_scan(gc_decref(cs)))

\* any graph of at most MaxEdges references, cycles and self references
\* included; every object starts with one reference held from outside
InitGcCycle ==
  /\ \E edges \in SubsetsUpTo(ObjIds \X ObjIds, MaxEdges) :
       LET children == [p \in ObjIds |-> {c \in ObjIds : <<p, c>> \in edges}]
       IN  gc_objs = [o \in ObjIds |->
                        [ref_count |-> InDegree(children, o) + 1,
                         children |-> children[o], freed |-> FALSE]]
  /\ gc_owners = [o \in ObjIds |-> 1]
  /\ gc_obj_list = SetToSeq(ObjIds)
  /\ gc_zero_ref_count_list = <<>>
  /\ gc_phase = "JS_GC_PHASE_NONE"
  /\ gc_finalized = [o \in ObjIds |-> 0]
  /\ call = NoCall
  /\ ret = JS_UNDEFINED
  /\ ArrayIdle
  /\ SortIdle
  /\ JsonIdle
  /\ IcIdle

\* JS_RunGC(rt)
RunGC ==
  /\ gc_phase = "JS_GC_PHASE_NONE"
  /\ \E cs \in {JS_RunGC(GcPassState)} :
       /\ gc_objs' = cs.objs
       /\ gc_obj_list' = cs.obj_list
       /\ gc_zero_ref_count_list' = cs.zero_list
       /\ gc_finalized' = cs.finalized
  /\ UNCHANGED <<gc_owners, gc_phase, outside_gc>>

NextGcCycle == FreeValue \/ FreeZeroRefcount \/ FreeZeroRefcountDone \/ RunGC

SpecGcCycle == InitGcCycle /\ [][NextGcCycle]_vars

(***************************************************************************)
(* Claims on cycle collection (specification SpecGcCycle).                 *)
(***************************************************************************)
Unfreed == {o \in DOMAIN gc_objs : ~gc_objs[o].freed}
RECURSIVE ReachFrom(_)
\* the unfreed objects reachable from the set S through held references
ReachFrom(S) ==
  LET T == S \cup {c \in Unfreed : \E p \in S : c \in gc_objs[p].children}
  IN  IF T = S THEN S ELSE ReachFrom(T)
\* reachable from a reference held outside the heap
Rooted == ReachFrom({o \in Unfreed : gc_owners[o] >= 1})
OnCycle(o) == o \in Unfreed /\ \E c \in gc_objs[o].children : c \in Unfreed /\ o \in ReachFrom({c})
IsRunGCStep ==
  gc_phase = "JS_GC_PHASE_NONE" /\ gc_phase' = "JS_GC_PHASE_NONE" /\ gc_owners' = gc_owners

\* C11: a release never finalizes an object that lies on a cycle, whose count
\* stays positive; JS_RunGC finalizes, once each, exactly the unfreed objects
\* not reachable from an outside reference, and an object that is reachable
\* survives with its count equal to its owners and surviving referrers, the
\* count it had when no finalized object referred to it
C11_CycleCollected ==
  [][\A o \in DOMAIN gc_objs :
       /\ (~IsRunGCStep /\ OnCycle(o)) =>
            /\ gc_finalized'[o] = gc_finalized[o]
            /\ ~gc_objs'[o].freed
            /\ gc_objs'[o].ref_count >= 1
       /\ (IsRunGCStep /\ o \in Unfreed \ Rooted) =>
            /\ gc_finalized[o] = 0
            /\ gc_finalized'[o] = 1
            /\ gc_objs'[o].freed
            /\ gc_objs'[o].ref_count = 0
       /\ (IsRunGCStep /\ o \in Rooted) =>
            /\ gc_finalized'[o] = 0
            /\ ~gc_objs'[o].freed
            /\ gc_objs'[o].ref_count =
                 gc_owners[o] + Cardinality({p \in Rooted : o \in gc_objs[p].children})
            /\ (\A p \in Unfreed \ Rooted : o \notin gc_objs[p].children) =>
                 gc_objs'[o].ref_count = gc_objs[o].ref_count
       /\ (IsRunGCStep /\ gc_objs[o].freed) =>
            gc_finalized'[o] = 1 /\ gc_objs'[o] = gc_objs[o]
       /\ IsRunGCStep => gc_zero_ref_count_list' = <<>>
    ]_vars

\* 1 and 2 refer only to each other; with every outside reference released
\* their counts stay at 1 and nothing is finalized
C11_WitnessLeak ==
  /\ gc_phase = "JS_GC_PHASE_NONE"
  /\ gc_objs[1].children = {2}
  /\ gc_objs[2].children = {1}
  /\ gc_objs[3].children = {}
  /\ gc_owners = [o \in ObjIds |-> IF o = 3 THEN 1 ELSE 0]
  /\ gc_objs[1].ref_count = 1
  /\ gc_objs[2].ref_count = 1
  /\ gc_finalized = [o \in ObjIds |-> 0]

\* the same graph after JS_RunGC: 1 and 2 finalized once, 3 untouched
C11_Witness ==
  /\ gc_phase = "JS_GC_PHASE_NONE"
  /\ gc_objs[1].children = {2}
  /\ gc_objs[2].children = {1}
  /\ gc_objs[3].children = {}
  /\ gc_owners = [o \in ObjIds |-> IF o = 3 THEN 1 ELSE 0]
  /\ gc_finalized = [o \in ObjIds |-> IF o = 3 THEN 0 ELSE 1]
  /\ gc_objs[1].ref_count = 0
  /\ gc_objs[2].ref_count = 0
  /\ gc_objs[3].ref_count = 1

\* a cycle held from a rooted object survives the pass, which moves its
\* members to the tail of gc_obj_list
C11_WitnessRootedCycle ==
  /\ gc_phase = "JS_GC_PHASE_NONE"
  /\ gc_objs[3].children = {1}
  /\ gc_objs[1].children = {2}
  /\ gc_objs[2].children = {1}
  /\ gc_owners = [o \in ObjIds |-> IF o = 3 THEN 1 ELSE 0]
  /\ gc_finalized = [o \in ObjIds |-> 0]
  /\ gc_obj_list = <<3, 1, 2>>
  /\ gc_objs[1].ref_count = 2
  /\ gc_objs[2].ref_count = 1

(***************************************************************************)
(* Shapes.  sh_shapes maps an address to the JSShape stored there; the     *)
(* shape hash table of the runtime holds the live shapes with is_hashed.   *)
(* An object records next to its shape pointer the prototype it was made   *)
(* from and the properties added to it, for as long as that is its whole   *)
(* story (pure: no property deleted).  The context keeps the initial shape *)
(* of arrays in JSContext.array_shape.                                     *)
(***************************************************************************)
\* one address for each object and one for the context
ShapeAddrs == 1..(MaxShapeObjs + 1)
ShapeObjIds == 1..MaxShapeObjs
JS_ATOM_length == "length"
JS_PROP_C_W_E == 7
JS_PROP_WRITABLE == 2
OBJECT_PROTO == "Object.prototype"
ARRAY_PROTO == "Array.prototype"
FreeShape == [live |-> FALSE, ref_count |-> 0, is_hashed |-> FALSE, proto |-> "", prop |-> <<>>]
NoObject == [live |-> FALSE, shape |-> 0, proto |-> "", added |-> <<>>, pure |-> TRUE]
ShapeProperty(atom, flags) == [atom |-> atom, flags |-> flags]
\* the properties a program adds: a and b, and a with other flags
ShapeProps == {ShapeProperty("a", JS_PROP_C_W_E), ShapeProperty("b", JS_PROP_C_W_E),
               ShapeProperty("a", JS_PROP_WRITABLE)}
\* an object gets each atom once
MaxProps == Cardinality({pr.atom : pr \in ShapeProps})
FreeAddrs(shapes) == {a \in DOMAIN shapes : ~shapes[a].live}
HashedShapes(shapes) == {a \in DOMAIN shapes : shapes[a].live /\ shapes[a].is_hashed}

\* js_new_shape2: a hashed shape with one reference
js_new_shape(shapes, addr, proto, prop) ==
  [shapes EXCEPT ![addr] = [live |-> TRUE, ref_count |-> 1, is_hashed |-> TRUE,
                            proto |-> proto, prop |-> prop]]

\* js_clone_shape: a copy with one reference, outside the hash table
js_clone_shape(shapes, addr, sh) ==
  [shapes EXCEPT ![addr] = [shapes[sh] EXCEPT !.ref_count = 1, !.is_hashed = FALSE]]

js_dup_shape(shapes, sh) == [shapes EXCEPT ![sh].ref_count = @ + 1]

\* js_free_shape: at zero the shape leaves the hash table and is freed
js_free_shape(shapes, sh) ==
  IF shapes[sh].ref_count - 1 = 0
  THEN [shapes EXCEPT ![sh] = FreeShape]
  ELSE [shapes EXCEPT ![sh].ref_count = @ - 1]

\* a lookup in the hash table that never finds a shape
find_hashed_shape_none(shapes, proto, prop) == 0

\* find_hashed_shape_proto / find_hashed_shape_prop: the hashed shape with
\* this prototype and these properties, 0 when there is none
find_hashed_shape(shapes, proto, prop) ==
  LET found == {a \in HashedShapes(shapes) :
                  shapes[a].proto = proto /\ shapes[a].prop = prop}
  IN  IF found = {} THEN 0 ELSE CHOOSE a \in found : \A b \in found : a <= b

\* add_property(ctx, p, prop, prop_flags): a hashed shape with the property
\* is shared; else a shared shape is cloned and hashed; then the shape, now
\* held by p alone, gets the property in place (add_shape_property)
add_property(shapes, obj, addr, atom, flags) ==
  LET sh == obj.shape
      prop == Append(shapes[sh].prop, ShapeProperty(atom, flags))
      new_sh == IF shapes[sh].is_hashed
                THEN find_hashed_shape(shapes, shapes[sh].proto, prop) ELSE 0
      obj1 == IF obj.pure
              THEN [obj EXCEPT !.added = Append(@, ShapeProperty(atom, flags))]
              ELSE obj
  IN  IF new_sh # 0
      THEN [ok |-> TRUE, shapes |-> js_free_shape(js_dup_shape(shapes, new_sh), sh),
            obj |-> [obj1 EXCEPT !.shape = new_sh]]
      ELSE IF shapes[sh].is_hashed /\ shapes[sh].ref_count # 1
      THEN IF addr = 0
           THEN [ok |-> FALSE, shapes |-> shapes, obj |-> obj]
           ELSE LET s1 == js_clone_shape(shapes, addr, sh)
                    s2 == [s1 EXCEPT ![addr].is_hashed = TRUE, ![addr].prop = prop]
                IN  [ok |-> TRUE, shapes |-> js_free_shape(s2, sh),
                     obj |-> [obj1 EXCEPT !.shape = addr]]
      ELSE [ok |-> TRUE, shapes |-> [shapes EXCEPT ![sh].prop = prop], obj |-> obj1]

\* js_shape_prepare_update(ctx, p): the object gets a shape of its own,
\* outside the hash table
js_shape_prepare_update(shapes, obj, addr) ==
  LET sh == obj.shape
  IN  IF ~shapes[sh].is_hashed
      THEN [ok |-> TRUE, shapes |-> shapes, obj |-> obj]
      ELSE IF shapes[sh].ref_count # 1
      THEN IF addr = 0
           THEN [ok |-> FALSE, shapes |-> shapes, obj |-> obj]
           ELSE [ok |-> TRUE, shapes |-> js_free_shape(js_clone_shape(shapes, addr, sh), sh),
                 obj |-> [obj EXCEPT !.shape = addr]]
      ELSE [ok |-> TRUE, shapes |-> [shapes EXCEPT ![sh].is_hashed = FALSE], obj |-> obj]

\* the address malloc returns, the lowest one free; 0 when memory is exhausted
MallocShape(shapes) ==
  IF FreeAddrs(shapes) = {} THEN {0}
  ELSE {CHOOSE a \in FreeAddrs(shapes) : \A b \in FreeAddrs(shapes) : a <= b}

\* JS_NewContext: the context makes the initial shape of arrays
InitShape ==
  /\ sh_shapes = js_new_shape([a \in ShapeAddrs |-> FreeShape], 1, ARRAY_PROTO,
                              <<ShapeProperty(JS_ATOM_length, JS_PROP_WRITABLE)>>)
  /\ sh_array_shape = 1
  /\ sh_objs = [o \in ShapeObjIds |-> NoObject]
  /\ call = NoCall
  /\ ret = JS_UNDEFINED
  /\ ArrayIdle
  /\ SortIdle
  /\ JsonIdle
  /\ ic_cr = <<>>
  /\ ic_recency = <<>>
  /\ ic_n = 0
  /\ ic_hist = <<>>
  /\ GcIdle

\* JS_NewObjectProtoClass(ctx, proto, JS_CLASS_OBJECT), proto one of protos
NewObjectFrom(protos) ==
  \E o \in DOMAIN sh_objs, proto \in protos :
    /\ ~sh_objs[o].live
    /\ \A o2 \in DOMAIN sh_objs : o2 < o => sh_objs[o2].live
    /\ LET sh == find_hashed_shape(sh_shapes, proto, <<>>)
       IN  IF sh # 0
           THEN /\ sh_shapes' = js_dup_shape(sh_shapes, sh)
                /\ sh_objs' = [sh_objs EXCEPT ![o] =
                                 [NoObject EXCEPT !.live = TRUE, !.shape = sh, !.proto = proto]]
           ELSE \E addr \in MallocShape(sh_shapes) \ {0} :
                  /\ sh_shapes' = js_new_shape(sh_shapes, addr, proto, <<>>)
                  /\ sh_objs' = [sh_objs EXCEPT ![o] =
                                   [NoObject EXCEPT !.live = TRUE, !.shape = addr,
                                                    !.proto = proto]]
    /\ UNCHANGED <<sh_array_shape, outside_shape>>

ShapeNewObject == NewObjectFrom({OBJECT_PROTO, ARRAY_PROTO})

\* JS_NewArray(ctx): JS_NewObjectFromShape(ctx, js_dup_shape(ctx->array_shape))
ShapeNewArray ==
  \E o \in DOMAIN sh_objs :
    /\ ~sh_objs[o].live
    /\ \A o2 \in DOMAIN sh_objs : o2 < o => sh_objs[o2].live
    /\ sh_shapes' = js_dup_shape(sh_shapes, sh_array_shape)
    /\ sh_objs' = [sh_objs EXCEPT ![o] =
                     [NoObject EXCEPT !.live = TRUE, !.shape = sh_array_shape,
                                      !.proto = ARRAY_PROTO,
                                      !.added = sh_shapes[sh_array_shape].prop]]
    /\ UNCHANGED <<sh_array_shape, outside_shape>>

\* a property definition that reaches add_property, the property one of props
AddPropertyFrom(props) ==
  \E o \in DOMAIN sh_objs, pr \in props, addr \in MallocShape(sh_shapes) :
    /\ sh_objs[o].live
    /\ Len(sh_shapes[sh_objs[o].shape].prop) < MaxProps
    /\ \A i \in 1..Len(sh_shapes[sh_objs[o].shape].prop) :
         sh_shapes[sh_objs[o].shape].prop[i].atom # pr.atom
    /\ \E r \in {add_property(sh_shapes, sh_objs[o], addr, pr.atom, pr.flags)} :
         /\ r.ok
         /\ sh_shapes' = r.shapes
         /\ sh_objs' = [sh_objs EXCEPT ![o] = r.obj]
    /\ UNCHANGED <<sh_array_shape, outside_shape>>

ShapeAddProperty == AddPropertyFrom(ShapeProps)

\* delete_property(ctx, p, atom) of the last property added
ShapeDeleteProperty ==
  \E o \in DOMAIN sh_objs, addr \in MallocShape(sh_shapes) :
    /\ sh_objs[o].live
    /\ sh_shapes[sh_objs[o].shape].prop # <<>>
    /\ \E r \in {js_shape_prepare_update(sh_shapes, sh_objs[o], addr)} :
         /\ r.ok
         /\ sh_shapes' = [r.shapes EXCEPT ![r.obj.shape].prop = SubSeq(@, 1, Len(@) - 1)]
         /\ sh_objs' = [sh_objs EXCEPT ![o] = [r.obj EXCEPT !.pure = FALSE, !.added = <<>>]]
    /\ UNCHANGED <<sh_array_shape, outside_shape>>

\* free_object(rt, p): js_free_shape(rt, p->shape)
ShapeFreeObject ==
  \E o \in DOMAIN sh_objs :
    /\ sh_objs[o].live
    /\ \A o2 \in DOMAIN sh_objs : o2 > o => ~sh_objs[o2].live
    /\ sh_shapes' = js_free_shape(sh_shapes, sh_objs[o].shape)
    /\ sh_objs' = [sh_objs EXCEPT ![o] = NoObject]
    /\ UNCHANGED <<sh_array_shape, outside_shape>>

NextShape ==
  \/ ShapeNewObject
  \/ ShapeNewArray
  \/ ShapeAddProperty
  \/ ShapeDeleteProperty
  \/ ShapeFreeObject

SpecShape == InitShape /\ [][NextShape]_vars

(***************************************************************************)
(* Claims on shapes (specification SpecShape).                             *)
(***************************************************************************)
LiveShapeObjs == {o \in DOMAIN sh_objs : sh_objs[o].live}
ObjectsUsing(sh) == {o \in LiveShapeObjs : sh_objs[o].shape = sh}
\* the references to a shape held outside objects
ContextRefs(sh) == IF sh = sh_array_shape THEN 1 ELSE 0

C12_WitnessArrayShape ==
  /\ LiveShapeObjs = {1, 2}
  /\ sh_objs[1].shape = sh_array_shape
  /\ sh_objs[2].shape = sh_array_shape
  /\ sh_shapes[sh_array_shape].is_hashed
  /\ sh_shapes[sh_array_shape].ref_count = 3

\* an array that got a property left the shape of the context untouched
C12_WitnessArrayGrown ==
  /\ LiveShapeObjs = {1}
  /\ sh_objs[1].added = <<ShapeProperty(JS_ATOM_length, JS_PROP_WRITABLE),
                          ShapeProperty("a", JS_PROP_C_W_E)>>
  /\ sh_objs[1].shape # sh_array_shape
  /\ sh_shapes[sh_array_shape].prop = <<ShapeProperty(JS_ATOM_length, JS_PROP_WRITABLE)>>

(***************************************************************************)
(* get_ic_prop_offset as a function: a slot with any content and any       *)
(* stored index is probed with a shape, twice in a row.                    *)
(***************************************************************************)
RECURSIVE ic_probe_trace(_, _, _)
\* the positions the for (;;) of get_ic_prop_offset reads, in order
ic_probe_trace(cr, shape, i) ==
  IF cr.buffer[i].shape = shape
  THEN <<i>>
  ELSE IF (i + 1) % IC_CACHE_ITEM_CAPACITY = cr.index
  THEN <<i>>
  ELSE <<i>> \o ic_probe_trace(cr, shape, (i + 1) % IC_CACHE_ITEM_CAPACITY)

\* shapes are named by their address, 0 is an unused entry
LookupShapes == 1..MaxIcShapes
LookupOffsets == {5, 6}
Rings ==
  [index : RingPositions,
   buffer : [RingPositions -> [shape : 0..MaxIcShapes, prop_offset : LookupOffsets]]]

InitLookup ==
  /\ ic_cr \in Rings
  /\ ic_recency = <<>>
  /\ ic_n = 0
  /\ ic_hist = [lookups |-> 0, before |-> ic_cr, last_shape |-> 0, last_ret |-> 0]
  /\ ShapeIdle
  /\ call = NoCall
  /\ ret = JS_UNDEFINED
  /\ ArrayIdle
  /\ SortIdle
  /\ JsonIdle
  /\ GcIdle

\* get_ic_prop_offset(ic, cache_offset, shape); the second call repeats the
\* shape of the first
IcLookup ==
  /\ ic_hist.lookups < 2
  /\ \E shape \in LookupShapes :
       /\ ic_hist.lookups = 1 => shape = ic_hist.last_shape
       /\ \E r \in {get_ic_prop_offset(ic_cr, shape)} :
            /\ ic_cr' = r.cr
            /\ ic_hist' = [lookups |-> ic_hist.lookups + 1, before |-> ic_cr,
                           last_shape |-> shape, last_ret |-> r.ret]
  /\ UNCHANGED <<ic_recency, ic_n, outside_ic>>

NextLookup == IcLookup

SpecIcLookup == InitLookup /\ [][NextLookup]_vars

(***************************************************************************)
(* Claims on get_ic_prop_offset (specification SpecIcLookup).              *)
(***************************************************************************)
\* position of the k-th probe of a ring whose stored index is index
ProbePos(index, k) == (index + k) % IC_CACHE_ITEM_CAPACITY
\* the probes, counted from 0, that would find the shape
MatchingProbes(cr, shape) ==
  {k \in RingPositions : cr.buffer[ProbePos(cr.index, k)].shape = shape}
FirstMatch(cr, shape) ==
  CHOOSE k \in MatchingProbes(cr, shape) : \A j \in MatchingProbes(cr, shape) : k <= j
NoRepeat(seq) == \A i \in 1..Len(seq), j \in 1..Len(seq) : seq[i] = seq[j] => i = j

\* C13: the probes start at the stored index, go up by one with wrap-around
\* and read no position twice; the result is the offset of the first probed
\* entry with the shape and the index then names that entry; it is -1 exactly
\* when no entry has the shape, and the slot is then as it was; a repeated
\* lookup hits on its first probe
C13_Lookup ==
  ic_hist.lookups >= 1 =>
    LET cr0 == ic_hist.before
        shape == ic_hist.last_shape
        trace == ic_probe_trace(cr0, shape, cr0.index)
    IN  /\ Len(trace) <= IC_CACHE_ITEM_CAPACITY
        /\ NoRepeat(trace)
        /\ \A k \in 1..Len(trace) : trace[k] = ProbePos(cr0.index, k - 1)
        /\ (ic_hist.last_ret = -1) <=> (MatchingProbes(cr0, shape) = {})
        /\ MatchingProbes(cr0, shape) = {} =>
             ic_cr = cr0 /\ Len(trace) = IC_CACHE_ITEM_CAPACITY
        /\ MatchingProbes(cr0, shape) # {} =>
             LET pos == ProbePos(cr0.index, FirstMatch(cr0, shape))
             IN  /\ ic_hist.last_ret = cr0.buffer[pos].prop_offset
                 /\ ic_cr = [cr0 EXCEPT !.index = pos]
                 /\ trace[Len(trace)] = pos
                 /\ ic_probe_trace(ic_cr, shape, ic_cr.index) = <<pos>>
        /\ (ic_hist.lookups = 2 /\ ic_hist.last_ret # -1) => ic_cr = cr0

\* a hit behind the wrap: index 2, the shape at position 1 only; 5 is returned
\* after four probes and the index becomes 1
C13_Witness ==
  /\ ic_hist.lookups = 1
  /\ ic_hist.before.index = 2
  /\ MatchingProbes(ic_hist.before, ic_hist.last_shape) = {3}
  /\ ic_hist.last_ret = 5
  /\ ic_cr.index = 1

\* a miss on a full ring
C13_WitnessMiss ==
  /\ ic_hist.lookups = 1
  /\ \A i \in RingPositions : ic_hist.before.buffer[i].shape \notin {0, ic_hist.last_shape}
  /\ ic_hist.last_ret = -1
  /\ ic_cr = ic_hist.before

\* the shape is in the ring twice with different offsets: the first probed wins
C13_WitnessTwice ==
  /\ ic_hist.lookups = 1
  /\ ic_hist.before.index = 3
  /\ MatchingProbes(ic_hist.before, ic_hist.last_shape) = {1, 2}
  /\ ic_hist.before.buffer[0].prop_offset = 6
  /\ ic_hist.before.buffer[1].prop_offset = 5
  /\ ic_hist.last_ret = 6

(***************************************************************************)
(* The inline cache over the shape system.  One call site reads property   *)
(* "a" of the live objects through its slot; add_ic_slot takes a reference *)
(* to the shape it stores and gives up the one of the entry it replaces.   *)
(* Shapes are freed and their addresses used again as objects come and go. *)
(***************************************************************************)
IC_ATOM == "a"
CacheShapeAddrs == 1..(IC_CACHE_ITEM_CAPACITY + 2)

\* find_own_property: the index of atom in the property list of the shape,
\* -1 when it has none
PropOffset(shape, atom) ==
  LET found == {i \in 1..Len(shape.prop) : shape.prop[i].atom = atom}
  IN  IF found = {} THEN -1 ELSE (CHOOSE i \in found : TRUE) - 1

js_free_shape_null(shapes, sh) == IF sh = 0 THEN shapes ELSE js_free_shape(shapes, sh)

\* an insertion that stores the shape pointer without a reference
add_ic_slot_raw(shapes, cr, v, sh, prop_offset) ==
  [shapes |-> shapes,
   cr |-> [cr EXCEPT !.buffer[v] = [shape |-> sh, prop_offset |-> prop_offset]]]

\* add_ic_slot(ic, atom, object, prop_offset) into position v of the slot
add_ic_slot(shapes, cr, v, sh, prop_offset) ==
  [shapes |-> js_free_shape_null(js_dup_shape(shapes, sh), cr.buffer[v].shape),
   cr |-> [cr EXCEPT !.buffer[v] = [shape |-> sh, prop_offset |-> prop_offset]]]

\* shapes with property "a" that earlier objects, freed since, left in the
\* ring: the cache holds their only reference
CachedBefore ==
  <<<<ShapeProperty("a", JS_PROP_WRITABLE)>>,
    <<ShapeProperty("b", JS_PROP_C_W_E), ShapeProperty("a", JS_PROP_WRITABLE)>>,
    <<ShapeProperty("a", JS_PROP_WRITABLE), ShapeProperty("b", JS_PROP_C_W_E)>>,
    <<ShapeProperty("a", JS_PROP_C_W_E)>>>>

\* the context exists, no object is live, and the ring holds the first n
\* shapes of CachedBefore
InitIcShape ==
  /\ \E n \in 0..IC_CACHE_ITEM_CAPACITY :
       /\ sh_shapes =
            [a \in CacheShapeAddrs |->
               IF a = 1
               THEN [live |-> TRUE, ref_count |-> 1, is_hashed |-> TRUE, proto |-> ARRAY_PROTO,
                     prop |-> <<ShapeProperty(JS_ATOM_length, JS_PROP_WRITABLE)>>]
               ELSE IF a - 1 <= n
               THEN [live |-> TRUE, ref_count |-> 1, is_hashed |-> TRUE,
                     proto |-> OBJECT_PROTO, prop |-> CachedBefore[a - 1]]
               ELSE FreeShape]
       /\ ic_cr = [index |-> 0,
                   buffer |-> [i \in RingPositions |->
                                 IF i < n
                                 THEN [shape |-> i + 2,
                                       prop_offset |-> PropOffset([prop |-> CachedBefore[i + 1]],
                                                                  IC_ATOM)]
                                 ELSE [shape |-> 0, prop_offset |-> 0]]]
       /\ ic_recency = [i \in 1..n |-> i - 1]
  /\ sh_array_shape = 1
  /\ sh_objs = [o \in {1, 2} |-> NoObject]
  /\ ic_n = 0
  /\ ic_hist = [last_ret |-> -1, last_offset |-> -1]
  /\ call = NoCall
  /\ ret = JS_UNDEFINED
  /\ ArrayIdle
  /\ SortIdle
  /\ JsonIdle
  /\ GcIdle

\* OP_get_field with a cache slot, on an object whose shape is in the ring
IcShapeHit ==
  \E o \in DOMAIN sh_objs :
    /\ sh_objs[o].live
    /\ ic_n < MaxAccesses
    /\ ic_n' = ic_n + 1
    /\ \E r \in {get_ic_prop_offset(ic_cr, sh_objs[o].shape)} :
         /\ r.ret >= 0
         /\ ic_cr' = r.cr
         /\ ic_recency' = Touch(ic_recency, r.cr.index)
         /\ ic_hist' = [last_ret |-> r.ret,
                        last_offset |-> PropOffset(sh_shapes[sh_objs[o].shape], IC_ATOM)]
    /\ UNCHANGED outside_ic

\* OP_get_field with a cache slot that misses: the property list is walked
\* and a property that is found is inserted with add_ic_slot
IcShapeMiss ==
  \E o \in DOMAIN sh_objs :
    /\ sh_objs[o].live
    /\ ic_n < MaxAccesses
    /\ ic_n' = ic_n + 1
    /\ \E r \in {get_ic_prop_offset(ic_cr, sh_objs[o].shape)} :
         LET sh == sh_objs[o].shape
             prop_offset == PropOffset(sh_shapes[sh], IC_ATOM)
         IN  /\ r.ret < 0
             /\ prop_offset >= 0
             /\ \E v \in Victims(r.cr, ic_recency) :
                  \E s \in {add_ic_slot(sh_shapes, r.cr, v, sh, prop_offset)} :
                    /\ sh_shapes' = s.shapes
                    /\ ic_cr' = s.cr
                    /\ ic_recency' = Touch(ic_recency, v)
             /\ ic_hist' = [last_ret |-> -1, last_offset |-> prop_offset]
    /\ UNCHANGED <<sh_objs, sh_array_shape, array_vars, sort_vars, json_vars, gc_vars>>

\* the program at hand makes plain objects with the properties a and b
IcNewObject == NewObjectFrom({OBJECT_PROTO})
IcAddProperty ==
  AddPropertyFrom({ShapeProperty("a", JS_PROP_C_W_E), ShapeProperty("b", JS_PROP_C_W_E)})

NextIcShape ==
  \/ IcNewObject
  \/ IcAddProperty
  \/ ShapeFreeObject
  \/ IcShapeHit
  \/ IcShapeMiss

SpecIcShape == InitIcShape /\ [][NextIcShape]_vars

(***************************************************************************)
(* Claims on the inline cache over shapes (specification SpecIcShape).     *)
(***************************************************************************)
RingEntries == {i \in RingPositions : ic_cr.buffer[i].shape # 0}
RingRefs(sh) == Cardinality({i \in RingEntries : ic_cr.buffer[i].shape = sh})

\* C14: the shape of a ring entry is live, held by a reference of the cache,
\* and the entry's offset is where that shape has the property, so a hit
\* returns the offset the walk of the property list would find; the count of
\* a shape is the number of its objects, its ring entries and, for the shape
\* of arrays, the context
C14_NoStaleEntry ==
  /\ \A i \in RingEntries :
       LET sh == ic_cr.buffer[i].shape
       IN  /\ sh_shapes[sh].live
           /\ sh_shapes[sh].ref_count >= 1
           /\ ic_cr.buffer[i].prop_offset = PropOffset(sh_shapes[sh], IC_ATOM)
  /\ \A i \in RingEntries, j \in RingEntries :
       ic_cr.buffer[i].shape = ic_cr.buffer[j].shape => i = j
  /\ ic_hist.last_ret >= 0 => ic_hist.last_ret = ic_hist.last_offset
  /\ \A sh \in DOMAIN sh_shapes :
       sh_shapes[sh].live =>
         sh_shapes[sh].ref_count =
           Cardinality(ObjectsUsing(sh)) + ContextRefs(sh) + RingRefs(sh)
  /\ \A o \in LiveShapeObjs :
       get_ic_prop_offset(ic_cr, sh_objs[o].shape).ret
         \in {-1, PropOffset(sh_shapes[sh_objs[o].shape], IC_ATOM)}

\* the shape <<a>> is in the ring and no object uses it any more: it is still
\* live with the cache's reference, and a new shape got another address
C14_Witness ==
  /\ \E i \in RingEntries :
       /\ sh_shapes[ic_cr.buffer[i].shape].prop = <<ShapeProperty("a", JS_PROP_C_W_E)>>
       /\ ObjectsUsing(ic_cr.buffer[i].shape) = {}
       /\ sh_shapes[ic_cr.buffer[i].shape].ref_count = 1
  /\ \E o \in LiveShapeObjs :
       /\ sh_shapes[sh_objs[o].shape].prop = <<ShapeProperty("b", JS_PROP_C_W_E)>>
       /\ RingRefs(sh_objs[o].shape) = 0
  /\ ic_n >= 1

\* an entry was replaced, its shape freed, and the address is in use again
\* for a shape with "a" at another offset, which the ring does not hold
C14_WitnessReuse ==
  /\ RingRefs(2) = 0
  /\ sh_shapes[2].live
  /\ sh_shapes[2].prop = <<ShapeProperty("b", JS_PROP_C_W_E), ShapeProperty("a", JS_PROP_C_W_E)>>
  /\ \E o \in LiveShapeObjs : sh_objs[o].shape = 2
  /\ Cardinality(RingEntries) = IC_CACHE_ITEM_CAPACITY

\* a hit on a shape shared by two objects
C14_WitnessHit ==
  /\ ic_hist.last_ret = 1
  /\ ic_hist.last_offset = 1
  /\ LiveShapeObjs = {1, 2}
  /\ sh_objs[1].shape = sh_objs[2].shape

(***************************************************************************)
(* The error an Array builtin leaves pending when it rejects a length.     *)
(* JS_ThrowTypeError(ctx, msg) makes an error of class JS_TYPE_ERROR the   *)
(* pending exception; the builtin then returns JS_EXCEPTION.               *)
(***************************************************************************)
NoException == [class |-> "none", message |-> ""]
\* an exception a callee raised (the allocator's refusal)
CalleeException == [class |-> "callee", message |-> ""]
JS_ThrowRangeError(msg) == [class |-> "JS_RANGE_ERROR", message |-> msg]
JS_ThrowTypeError(msg) == [class |-> "JS_TYPE_ERROR", message |-> msg]

\* if (newLen > MAX_SAFE_INTEGER) { JS_ThrowTypeError(ctx, "Array loo long"); ..
js_array_push_throw(p, argv) ==
  IF I64Gt(I64Add(js_get_length64(p), I64(Len(argv))), MAX_SAFE_INTEGER)
  THEN JS_ThrowTypeError("Array loo long") ELSE NoException

\* if (splice && len + item_count - del_count > MAX_SAFE_INTEGER) { JS_ThrowTypeError ..
js_array_slice_throw(p, argc, arg0, arg1, items, splice) ==
  LET len64 == js_get_length64(p)
      start64 == JS_ToInt64Clamp(arg0, len64, len64)
      item_count == IF splice /\ argc >= 2 THEN Len(items) ELSE 0
      del64 == IF argc = 0 THEN I64(0)
               ELSE IF argc = 1 THEN I64Sub(len64, start64)
               ELSE JS_ToInt64Clamp(arg1, I64Sub(len64, start64), I64(0))
  IN  IF splice /\ I64Gt(I64Sub(I64Add(len64, I64(item_count)), del64), MAX_SAFE_INTEGER)
      THEN JS_ThrowTypeError("Array loo long") ELSE NoException

\* the pending exception after a call that returned val
PendingAfter(val, thrown) ==
  IF ~JS_IsException(val) THEN NoException
  ELSE IF thrown # NoException THEN thrown
  ELSE CalleeException

(***************************************************************************)
(* js_array_concat.  An element e of the walk (the receiver, then each     *)
(* argument) is [val, sym]: val is an object or a primitive, sym the value *)
(* of its Symbol.isConcatSpreadable property.                              *)
(***************************************************************************)
IsObjectRec(x) == "class_id" \in DOMAIN x
JS_isConcatSpreadable(e) ==
  IF ~IsObjectRec(e.val) THEN FALSE
  ELSE IF e.sym # "undefined" THEN e.sym = "true"
  ELSE e.val.class_id = "Array"

JS_DefinePropertyValueInt64(arr, n64, val, malloc_limit) ==
  IF n64.hi = 0 THEN JS_SetPropertyInt64(arr, n64.lo, val, malloc_limit)
  ELSE JS_SetPropertyInt64Big(arr, n64, val)

RECURSIVE concat_copy(_, _, _, _, _)
\* for (k = 0; k < len; k++, n++): the present elements of e are defined
\* at n + k; an object longer than 2^26 with no element leaves arr as it is
concat_copy(arr, e, n64, k, malloc_limit) ==
  IF e.length.hi > 0 \/ k >= e.length.lo THEN [ret |-> 0, p |-> arr]
  ELSE LET g == JS_TryGetPropertyInt64(e, k)
           d == IF g.present = 1
                THEN JS_DefinePropertyValueInt64(arr, I64Add(n64, I64(k)), g.val,
                                                 malloc_limit)
                ELSE [ret |-> 1, p |-> arr]
       IN  IF d.ret < 0 THEN [ret |-> -1, p |-> d.p]
           ELSE concat_copy(d.p, e, n64, k + 1, malloc_limit)

RECURSIVE concat_loop(_, _, _, _, _)
concat_loop(arr, n64, es, i, malloc_limit) ==
  IF i > Len(es)
  THEN [val |-> NEW_ARRAY, arr |-> JS_SetLength(arr, n64), thrown |-> NoException]
  ELSE LET e == es[i]
       IN  IF JS_isConcatSpreadable(e)
           THEN LET len64 == js_get_length64(e.val)
                IN  IF I64Gt(I64Add(n64, len64), MAX_SAFE_INTEGER)
                    THEN [val |-> JS_EXCEPTION, arr |-> NoArray,
                          thrown |-> JS_ThrowTypeError("Array loo long")]
                    ELSE LET c == concat_copy(arr, e.val, n64, 0, malloc_limit)
                         IN  IF c.ret < 0
                             THEN [val |-> JS_EXCEPTION, arr |-> NoArray,
                                   thrown |-> NoException]
                             ELSE concat_loop(c.p, I64Add(n64, len64), es, i + 1,
                                              malloc_limit)
           ELSE IF I64Le(MAX_SAFE_INTEGER, n64)
                THEN [val |-> JS_EXCEPTION, arr |-> NoArray,
                      thrown |-> JS_ThrowTypeError("Array loo long")]
                ELSE LET d == JS_DefinePropertyValueInt64(
                                arr, n64, IF IsObjectRec(e.val) THEN JS_MKOBJ(i) ELSE e.val,
                                malloc_limit)
                     IN  IF d.ret < 0
                         THEN [val |-> JS_EXCEPTION, arr |-> NoArray,
                               thrown |-> NoException]
                         ELSE concat_loop(d.p, I64Add(n64, I64(1)), es, i + 1,
                                          malloc_limit)

js_array_concat(es, malloc_limit) ==
  concat_loop(JS_ArraySpeciesCreate(0), I64(0), es, 1, malloc_limit)

\* one element of JS_FlattenIntoArray's loop that is present and is not
\* flattened further: the new targetIndex, or -1
JS_FlattenIntoArray_element(targetIndex64) ==
  IF I64Le(MAX_SAFE_INTEGER, targetIndex64)
  THEN [ret |-> -1, targetIndex |-> targetIndex64,
        thrown |-> JS_ThrowTypeError("Array too long")]
  ELSE [ret |-> 0, targetIndex |-> I64Add(targetIndex64, I64(1)),
        thrown |-> NoException]

(***************************************************************************)
(* The builtins that check a length against 2^53 - 1, with the pending     *)
(* exception recorded.                                                     *)
(***************************************************************************)
outside_throw == <<json_pc, heap, jsc, frames, cur, calls, parse_s, sort_vars,
                   ic_vars, gc_vars, shape_vars>>

InitThrow ==
  /\ this_obj \in InitArrays
  /\ pre_obj = this_obj
  /\ call = NoCall
  /\ ret = JS_UNDEFINED
  /\ ret_arr = NoArray
  /\ current_exception = NoException
  /\ json_pc = "idle"
  /\ heap = <<>>
  /\ jsc = <<>>
  /\ frames = <<>>
  /\ cur = <<>>
  /\ calls = <<>>
  /\ parse_s = <<>>
  /\ SortIdle
  /\ IcIdle
  /\ GcIdle

PushThrow ==
  /\ call = NoCall
  /\ \E n \in 0..MaxArgs, unshift \in BOOLEAN, malloc_limit \in MallocLimits :
       /\ \/ this_obj.length.hi = 0
          \/ ~unshift
          \/ n = 0
          \/ I64Gt(I64Add(this_obj.length, I64(n)), MAX_SAFE_INTEGER)
       /\ \E r \in {js_array_push(this_obj, Items(n), unshift, malloc_limit)} :
              /\ call' = [fn |-> IF unshift THEN "unshift" ELSE "push",
                          argv |-> Items(n), malloc_limit |-> malloc_limit]
              /\ ret' = r.val
              /\ this_obj' = r.p
              /\ current_exception' =
                   PendingAfter(r.val, js_array_push_throw(this_obj, Items(n)))
  /\ pre_obj' = this_obj
  /\ UNCHANGED <<ret_arr, outside_throw>>

SpliceThrow ==
  /\ call = NoCall
  /\ \E argc \in 0..(2 + MaxArgs), arg0 \in -1..MaxArrayLen, arg1 \in -1..3,
        malloc_limit \in MallocLimits :
       LET n == IF argc >= 2 THEN argc - 2 ELSE 0
       IN  /\ argc = 0 => arg0 = 0
           /\ argc < 2 => arg1 = 0
           /\ \/ this_obj.length.hi = 0
              \/ I64Gt(SpliceNewLen(this_obj.length, argc, arg0, arg1, n), MAX_SAFE_INTEGER)
           /\ \E r \in {js_array_slice(this_obj, argc, arg0, arg1, Items(n), TRUE,
                                          malloc_limit)} :
                  /\ call' = [fn |-> "splice", argc |-> argc, arg0 |-> arg0,
                              arg1 |-> arg1, items |-> Items(n),
                              malloc_limit |-> malloc_limit]
                  /\ ret' = r.val
                  /\ ret_arr' = r.arr
                  /\ this_obj' = r.p
                  /\ current_exception' =
                       PendingAfter(r.val, js_array_slice_throw(this_obj, argc, arg0, arg1,
                                                                Items(n), TRUE))
  /\ pre_obj' = this_obj
  /\ UNCHANGED outside_throw

\* the arguments of concat: a primitive, a two-element array, an array-like
\* of length 1 that asks to be spread, and the same array kept whole
ConcatArgs ==
  {[val |-> JS_NewString(1), sym |-> "undefined"],
   [val |-> NewFastArray(<<JS_NewInt32(1), JS_NewInt32(2)>>, 2, 2), sym |-> "undefined"],
   [val |-> NewArrayLike([k \in 0..0 |-> JS_NewInt32(1)], I64(1)), sym |-> "true"],
   [val |-> NewFastArray(<<JS_NewInt32(1), JS_NewInt32(2)>>, 2, 2), sym |-> "false"]}

\* the length concat has counted after each element (saturating above the bound)
RECURSIVE ConcatCount(_, _)
ConcatCount(es, i) ==
  IF i = 0 THEN I64(0)
  ELSE LET before == ConcatCount(es, i - 1)
       IN  IF I64Gt(before, MAX_SAFE_INTEGER) THEN before
           ELSE IF JS_isConcatSpreadable(es[i]) THEN I64Add(before, es[i].val.length)
           ELSE I64Add(before, I64(1))

Concat ==
  /\ call = NoCall
  /\ \E sym \in {"undefined", "true", "false"}, n \in 0..MaxArgs,
        malloc_limit \in MallocLimits :
       \E argv \in [1..n -> ConcatArgs] :
         LET es == <<[val |-> this_obj, sym |-> sym]>> \o argv
             total == ConcatCount(es, Len(es))
         IN  \* a result longer than 2^26 is taken only when the call is rejected
             /\ total.hi = 0 \/ I64Gt(total, MAX_SAFE_INTEGER)
             /\ \E r \in {js_array_concat(es, malloc_limit)} :
                  /\ call' = [fn |-> "concat", es |-> es, malloc_limit |-> malloc_limit]
                  /\ ret' = r.val
                  /\ ret_arr' = r.arr
                  /\ current_exception' = PendingAfter(r.val, r.thrown)
  /\ pre_obj' = this_obj
  /\ UNCHANGED <<this_obj, outside_throw>>

FlattenElement ==
  /\ call = NoCall
  /\ \E targetIndex \in {I64(0), I64(1), I64Sub(MAX_SAFE_INTEGER, I64(1)),
                         MAX_SAFE_INTEGER} :
       \E r \in {JS_FlattenIntoArray_element(targetIndex)} :
         /\ call' = [fn |-> "flat", targetIndex |-> targetIndex]
         /\ ret' = IF r.ret < 0 THEN JS_EXCEPTION ELSE JS_NewInt64(r.targetIndex)
         /\ current_exception' = r.thrown
  /\ pre_obj' = this_obj
  /\ UNCHANGED <<this_obj, ret_arr, outside_throw>>

NextThrow == PushThrow \/ SpliceThrow \/ Concat \/ FlattenElement

SpecThrow == InitThrow /\ [][NextThrow]_vars

\* the call would make the length exceed 2^53 - 1
LengthExceeds ==
  \/ LengthOverflow
  \/ /\ call.fn = "concat"
     /\ I64Gt(ConcatCount(call.es, Len(call.es)), MAX_SAFE_INTEGER)
  \/ /\ call.fn = "flat"
     /\ I64Le(MAX_SAFE_INTEGER, call.targetIndex)

\* C15 as the spec states it: the error of a length above 2^53 - 1 belongs
\* to the RangeError class
C15_AsStated ==
  LengthExceeds => current_exception.class = "JS_RANGE_ERROR"

\* C15: push, unshift, splice, concat and flat reject a length above
\* 2^53 - 1 with a pending error of the TypeError class (never RangeError),
\* and leave no TypeError of that message otherwise
C15_LengthErrorClass ==
  /\ LengthExceeds =>
       /\ ret = JS_EXCEPTION
       /\ current_exception.class = "JS_TYPE_ERROR"
       /\ current_exception.message \in {"Array loo long", "Array too long"}
  /\ (call # NoCall /\ ~LengthExceeds) => current_exception.class # "JS_TYPE_ERROR"
  /\ current_exception.class # "JS_RANGE_ERROR"

C15_Witness ==
  /\ LengthExceeds
  /\ call.fn = "push"
  /\ pre_obj.length = MAX_SAFE_INTEGER
  /\ current_exception = [class |-> "JS_TYPE_ERROR", message |-> "Array loo long"]

C15_WitnessSplice == LengthExceeds /\ call.fn = "splice" /\ ret = JS_EXCEPTION
\* concat rejected at a spread element, and at an element kept whole
C15_WitnessConcatSpread ==
  /\ LengthExceeds /\ call.fn = "concat" /\ ret = JS_EXCEPTION
  /\ JS_isConcatSpreadable(call.es[Len(call.es)])
C15_WitnessConcatWhole ==
  /\ LengthExceeds /\ call.fn = "concat" /\ ret = JS_EXCEPTION
  /\ Len(call.es) = 3
  /\ ~JS_isConcatSpreadable(call.es[3])
C15_WitnessFlat == LengthExceeds /\ call.fn = "flat" /\ ret = JS_EXCEPTION
\* a call the allocator failed leaves a pending exception that is no TypeError
C15_WitnessCallee == call # NoCall /\ current_exception = CalleeException

(***************************************************************************)
(* JSON.stringify on values that hold undefined, functions and symbols     *)
(* (specification SpecJsonOmit): object 1 has three slots, object 2 one.   *)
(***************************************************************************)
JS_NewSymbol(n) == [tag |-> "symbol", v |-> n]
OmitKeys == <<"a", "b", "c">>
OmitSlotVals == {JS_NewInt32(1), JS_UNDEFINED, PlainFunction, JS_NewSymbol(1), JS_MKOBJ(2)}
MkOmitObject(class, vals, tojson) ==
  [class_id |-> class,
   elems |-> IF class = "Array" THEN vals ELSE <<>>,
   props |-> (IF class = "Object" THEN [i \in 1..Len(vals) |-> <<OmitKeys[i], vals[i]>>]
              ELSE <<>>)
             \o (IF tojson = JS_UNDEFINED THEN <<>> ELSE << <<"toJSON", tojson>> >>)]
OmitHeaps ==
  {[id \in {1, 2} |-> IF id = 1 THEN MkOmitObject(c1, vals, JS_UNDEFINED)
                      ELSE MkOmitObject(c2, <<a2>>, t2)] :
     c1 \in {"Array", "Object"}, vals \in [1..Len(OmitKeys) -> OmitSlotVals],
     c2 \in {"Array", "Object"}, a2 \in {JS_NewInt32(1), JS_UNDEFINED},
     t2 \in {JS_UNDEFINED, ToJSON_Undefined}}

InitJsonOmit ==
  /\ heap \in OmitHeaps
  /\ \E replacer \in {JS_UNDEFINED, Replacer_DropOne},
        space \in {JS_UNDEFINED, JS_NewInt32(1)} :
       call = [fn |-> "stringify", obj |-> JS_MKOBJ(1), replacer |-> replacer,
               space |-> space]
  /\ json_pc = "idle"
  /\ jsc = <<>>
  /\ frames = <<>>
  /\ cur = <<>>
  /\ calls = <<>>
  /\ current_exception = ""
  /\ parse_s = <<>>
  /\ ret = JS_UNDEFINED
  /\ ArrayIdle
  /\ SortIdle
  /\ IcIdle
  /\ GcIdle

SpecJsonOmit == InitJsonOmit /\ [][NextJson]_vars

\* the value of (holder, key) after toJSON and the replacer
FinalValue(holder, key, val) ==
  LET v1 == IF HasToJSON(val)
            THEN JS_CallFunction(ToJSONOf(val), val, key, JS_UNDEFINED) ELSE val
  IN  IF call.replacer.tag = "function"
      THEN JS_CallFunction(call.replacer, holder, key, v1) ELSE v1
IsOmitted(v) == v.tag \in {"undefined", "function", "symbol"}

RECURSIVE JoinComma(_, _, _)
\* the items from the i-th on, each after sep, with one comma between two
JoinComma(items, sep, i) ==
  IF i > Len(items) THEN ""
  ELSE (IF i > 1 THEN "," ELSE "") \o sep \o items[i] \o JoinComma(items, sep, i + 1)

RECURSIVE Serialized(_, _)
\* the text of a value that is not omitted: an array gives one item per
\* index ("null" for an omitted one), an object one member per property
\* that is not omitted
Serialized(v, indent) ==
  IF v.tag = "object"
  THEN LET gap == json_gap(call.space)
           indent1 == indent \o gap
           sep == IF gap # "" THEN "\n" \o indent1 ELSE ""
           sep1 == IF gap # "" THEN " " ELSE ""
           close(n) == IF n > 0 /\ gap # "" THEN "\n" \o indent ELSE ""
           o == heap[v.v]
       IN  IF o.class_id = "Array"
           THEN LET items == [i \in 1..Len(o.elems) |->
                                LET f == FinalValue(v, IntStr(i - 1), o.elems[i])
                                IN  IF IsOmitted(f) THEN "null"
                                    ELSE Serialized(f, indent1)]
                IN  "[" \o JoinComma(items, sep, 1) \o close(Len(items)) \o "]"
           ELSE LET final == [i \in 1..Len(o.props) |->
                                FinalValue(v, o.props[i][1], o.props[i][2])]
                    kept == SelectSeq([i \in 1..Len(o.props) |-> i],
                                      LAMBDA i : ~IsOmitted(final[i]))
                    items == [j \in 1..Len(kept) |->
                                JS_ToQuotedString(o.props[kept[j]][1]) \o ":" \o sep1
                                \o Serialized(final[kept[j]], indent1)]
                IN  "{" \o JoinComma(items, sep, 1) \o close(Len(items)) \o "}"
  ELSE js_json_to_str_primitive(v)

RootFinal == FinalValue(JSON_WRAPPER, "", call.obj)

\* C16: a value that is undefined, a function or a symbol after toJSON and
\* the replacer is left out of an object with its key and its comma (the
\* step that meets it leaves the buffer as it is), and is written as null
\* in an array, so that an array of n elements has n items and n - 1 commas;
\* for the root, stringify returns undefined
C16_OmittedValues ==
  /\ [](json_pc = "done" /\ ret # JS_EXCEPTION =>
          IF IsOmitted(RootFinal) THEN ret = JS_UNDEFINED
          ELSE ret = JS_NewStringBuf(Serialized(RootFinal, "")))
  /\ [][(json_pc = "check" /\ frames # <<>>
         /\ IsOmitted(FinalValue(cur.holder, cur.key, cur.val))) =>
          IF frames[Len(frames)].is_array
          THEN json_pc' = "to_str" /\ cur'.val = JS_NULL /\ jsc'.b = jsc.b
          ELSE json_pc' = "next" /\ jsc'.b = jsc.b /\ frames' = frames]_vars

\* {a: 1, b: undefined, c: 1} gives {"a":1,"c":1}
C16_Witness ==
  /\ json_pc = "done"
  /\ heap[1].class_id = "Object"
  /\ heap[1].props = << <<"a", JS_NewInt32(1)>>, <<"b", JS_UNDEFINED>>,
                        <<"c", JS_NewInt32(1)>> >>
  /\ call.replacer = JS_UNDEFINED /\ call.space = JS_UNDEFINED
  /\ ret = JS_NewStringBuf("{\"a\":1,\"c\":1}")
\* [function, 1, symbol] gives [null,1,null]
C16_WitnessArray ==
  /\ json_pc = "done"
  /\ heap[1].class_id = "Array"
  /\ heap[1].elems = <<PlainFunction, JS_NewInt32(1), JS_NewSymbol(1)>>
  /\ call.replacer = JS_UNDEFINED /\ call.space = JS_UNDEFINED
  /\ ret = JS_NewStringBuf("[null,1,null]")
\* every property omitted: {}
C16_WitnessAllOmitted ==
  /\ json_pc = "done"
  /\ heap[1].class_id = "Object"
  /\ heap[1].props = << <<"a", JS_UNDEFINED>>, <<"b", PlainFunction>>,
                        <<"c", JS_NewSymbol(1)>> >>
  /\ call.space = JS_NewInt32(1)
  /\ ret = JS_NewStringBuf("{}")
\* omitted by toJSON and by the replacer: {a: 1, b: <toJSON gives undefined>, c: symbol}
C16_WitnessReplacer ==
  /\ json_pc = "done"
  /\ heap[1].class_id = "Object"
  /\ heap[1].props = << <<"a", JS_NewInt32(1)>>, <<"b", JS_MKOBJ(2)>>,
                        <<"c", JS_MKOBJ(2)>> >>
  /\ heap[2].class_id = "Array" /\ heap[2].elems = <<JS_NewInt32(1)>>
  /\ heap[2].props = <<>>
  /\ call.replacer = Replacer_DropOne /\ call.space = JS_UNDEFINED
  /\ ret = JS_NewStringBuf("{\"b\":[null],\"c\":[null]}")

(***************************************************************************)
(* JSON.parse with a reviver.  The parsed value is a tree; a property name *)
(* is a string, the name of array index i being its decimal text.  An      *)
(* object handed to a callee is shared with it, so a call returns the      *)
(* holder as the callee left it along with its result.                     *)
(***************************************************************************)
IsTree(val) == val.tag \in {"Array", "Object"}
\* the index an array knows under name, or -1
IndexOfName(val, name) ==
  IF \E i \in 0..(Len(val.elems) - 1) : IntStr(i) = name
  THEN CHOOSE i \in 0..(Len(val.elems) - 1) : IntStr(i) = name
  ELSE -1
\* JS_GetProperty(ctx, holder, name)
TreeGetProperty(holder, name) ==
  IF holder.tag = "Array"
  THEN LET i == IndexOfName(holder, name)
       IN  IF i >= 0 /\ holder.elems[i + 1] # HOLE THEN holder.elems[i + 1]
           ELSE JS_UNDEFINED
  ELSE IF \E i \in 1..Len(holder.props) : holder.props[i][1] = name
  THEN holder.props[CHOOSE i \in 1..Len(holder.props) : holder.props[i][1] = name][2]
  ELSE JS_UNDEFINED
\* JS_DeleteProperty(ctx, val, prop, 0)
TreeDeleteProperty(val, prop) ==
  IF val.tag = "Array"
  THEN LET i == IndexOfName(val, prop)
       IN  IF i >= 0 THEN [val EXCEPT !.elems[i + 1] = HOLE] ELSE val
  ELSE [val EXCEPT !.props = SelectSeq(@, LAMBDA pr : pr[1] # prop)]
\* JS_DefinePropertyValue(ctx, val, prop, new_el, JS_PROP_C_W_E)
TreeDefineProperty(val, prop, new_el) ==
  IF val.tag = "Array"
  THEN LET i == IndexOfName(val, prop)
       IN  IF i >= 0 THEN [val EXCEPT !.elems[i + 1] = new_el] ELSE val
  ELSE JS_DefinePropertyValue(val, prop, new_el)
\* JS_GetOwnPropertyNamesInternal, or the indices below the length
TreeKeys(val) ==
  IF val.tag = "Array" THEN [i \in 1..Len(val.elems) |-> IntStr(i - 1)]
  ELSE [i \in 1..Len(val.props) |-> val.props[i][1]]

Reviver_Identity == JS_NewFunction(20)    \* (k, v) => v
Reviver_DropOnes == JS_NewFunction(21)    \* (k, v) => v === 1 ? undefined : v
Reviver_KeyA == JS_NewFunction(22)        \* (k, v) => k === "a" ? 7 : v
Reviver_DeleteB == JS_NewFunction(23)     \* function (k, v) { if (k === "a") delete this.b; return v }
Revivers == {Reviver_Identity, Reviver_DropOnes, Reviver_KeyA, Reviver_DeleteB}

\* what a reviver returns for (key, val)
ReviverResult(f, key, val) ==
  CASE f = Reviver_DropOnes -> IF val = JS_NewInt32(1) THEN JS_UNDEFINED ELSE val
    [] f = Reviver_KeyA -> IF key = "a" THEN JS_NewInt32(7) ELSE val
    [] OTHER -> val
\* JS_Call(ctx, reviver, holder, 2, args)
JS_CallReviver(f, holder, key, val) ==
  [val |-> ReviverResult(f, key, val),
   holder |-> IF f = Reviver_DeleteB /\ key = "a" /\ holder.tag = "Object"
              THEN TreeDeleteProperty(holder, "b") ELSE holder]

\* the update of a child with the reviver's result, without the deletion
internalize_define_always(val, prop, new_el) == TreeDefineProperty(val, prop, new_el)
\* if (JS_IsUndefined(new_el)) JS_DeleteProperty(..) else JS_DefinePropertyValue(..)
internalize_update(val, prop, new_el) ==
  IF JS_IsUndefined(new_el) THEN TreeDeleteProperty(val, prop)
  ELSE TreeDefineProperty(val, prop, new_el)

RECURSIVE internalize_json_property(_, _, _)
RECURSIVE internalize_loop(_, _, _, _)
\* for (i = 0; i < len; i++) over the names taken before the loop
internalize_loop(val, names, i, reviver) ==
  IF i > Len(names) THEN [val |-> val, calls |-> <<>>]
  ELSE LET r == internalize_json_property(val, names[i], reviver)
           rest == internalize_loop(internalize_update(r.holder, names[i], r.val),
                                    names, i + 1, reviver)
       IN  [val |-> rest.val, calls |-> r.calls \o rest.calls]

\* the result of the reviver for holder[name], the holder as the walk left
\* it, and the reviver calls made
internalize_json_property(holder, name, reviver) ==
  LET val == TreeGetProperty(holder, name)
      w == IF IsTree(val) THEN internalize_loop(val, TreeKeys(val), 1, reviver)
           ELSE [val |-> val, calls |-> <<>>]
      holder1 == IF IsTree(val) THEN TreeDefineProperty(holder, name, w.val) ELSE holder
      res == JS_CallReviver(reviver, holder1, name, w.val)
  IN  [val |-> res.val, holder |-> res.holder,
       calls |-> w.calls \o <<[fn |-> "reviver", this_val |-> holder1, key |-> name,
                               val |-> w.val]>>]

\* js_json_parse(ctx, this_val, argc, argv)
js_json_parse(buf, reviver) ==
  LET p == JS_ParseJSON2(buf, {})
  IN  IF JS_IsException(p.val) THEN [val |-> p.val, err |-> p.err, calls |-> <<>>]
      ELSE IF JS_IsFunction(reviver)
      THEN LET root == JS_NewObjectOf(<< <<"", p.val>> >>)
               r == internalize_json_property(root, "", reviver)
           IN  [val |-> r.val, err |-> "", calls |-> r.calls]
      ELSE [val |-> p.val, err |-> "", calls |-> <<>>]

InitRevive ==
  /\ \E doc \in Docs, reviver \in Revivers \cup {JS_UNDEFINED} :
       call = [fn |-> "parse", doc |-> doc, buf |-> TokensOf(doc), reviver |-> reviver]
  /\ json_pc = "idle"
  /\ heap = <<>>
  /\ jsc = <<>>
  /\ frames = <<>>
  /\ cur = <<>>
  /\ calls = <<>>
  /\ current_exception = ""
  /\ parse_s = <<>>
  /\ ret = JS_UNDEFINED
  /\ ArrayIdle
  /\ SortIdle
  /\ IcIdle
  /\ GcIdle

JsonParseReviver ==
  /\ call.fn = "parse"
  /\ json_pc = "idle"
  /\ \E r \in {js_json_parse(call.buf, call.reviver)} :
       /\ ret' = r.val
       /\ current_exception' = r.err
       /\ calls' = r.calls
  /\ json_pc' = "done"
  /\ UNCHANGED <<heap, jsc, frames, cur, parse_s, call, outside_json>>

NextRevive == JsonParseReviver

SpecRevive == InitRevive /\ [][NextRevive]_vars

RECURSIVE PostOrderKeys(_, _)
RECURSIVE PostOrderOf(_, _)
\* the names of a value's properties, each after the names below it
PostOrderOf(v, i) ==
  IF i > Len(TreeKeys(v)) THEN <<>>
  ELSE PostOrderKeys(TreeGetProperty(v, TreeKeys(v)[i]), TreeKeys(v)[i])
       \o PostOrderOf(v, i + 1)
\* the names under v, children first, then the name of v itself
PostOrderKeys(v, key) == (IF IsTree(v) THEN PostOrderOf(v, 1) ELSE <<>>) \o <<key>>

RECURSIVE Revived(_, _, _)
\* the value a reviver without side effects gives for (key, v): every child
\* is replaced by its revived value, or removed when that is undefined
Revived(f, key, v) ==
  LET below ==
        IF v.tag = "Array"
        THEN [v EXCEPT !.elems = [i \in 1..Len(v.elems) |->
                                    LET r == Revived(f, IntStr(i - 1), v.elems[i])
                                    IN  IF r = JS_UNDEFINED THEN HOLE ELSE r]]
        ELSE IF v.tag = "Object"
        THEN LET rs == [i \in 1..Len(v.props) |->
                          <<v.props[i][1], Revived(f, v.props[i][1], v.props[i][2])>>]
             IN  [v EXCEPT !.props = SelectSeq(rs, LAMBDA pr : pr[2] # JS_UNDEFINED)]
        ELSE v
  IN  ReviverResult(f, key, below)

\* the value the walk finds under name in v: Reviver_DeleteB has removed
\* b by then from an object that holds a before it
SeenBy(f, v, name) ==
  IF f = Reviver_DeleteB /\ v.tag = "Object" /\ name = "b"
     /\ \E i \in 1..Len(v.props) : v.props[i][1] = "a"
  THEN JS_UNDEFINED ELSE TreeGetProperty(v, name)
RECURSIVE VisitedKeys(_, _, _)
RECURSIVE VisitedOf(_, _, _)
VisitedOf(f, v, i) ==
  IF i > Len(TreeKeys(v)) THEN <<>>
  ELSE VisitedKeys(f, SeenBy(f, v, TreeKeys(v)[i]), TreeKeys(v)[i])
       \o VisitedOf(f, v, i + 1)
\* the names visited: those a container holds when the walk enters it,
\* each after the names below the value found under it
VisitedKeys(f, v, key) == (IF IsTree(v) THEN VisitedOf(f, v, 1) ELSE <<>>) \o <<key>>

CallKeys == [i \in 1..Len(calls) |-> calls[i].key]

\* C17 as the spec states it: the reviver is called once for every property
\* of the parsed structure, whatever the reviver does
C17_AsStated ==
  (json_pc = "done" /\ JS_IsFunction(call.reviver)) =>
    CallKeys = PostOrderKeys(call.doc, "")

\* C17: JSON.parse with a function as reviver calls it once for every name
\* a container holds when the walk enters it, on the value found under the
\* name at that moment and after the calls for that value's own properties,
\* and last for the root under the key ""; a child whose call returns
\* undefined is deleted, any other result replaces it.  With a reviver that
\* leaves the structure alone these are all properties of the parsed value
C17_Reviver ==
  (json_pc = "done" /\ JS_IsFunction(call.reviver)) =>
    /\ CallKeys = VisitedKeys(call.reviver, call.doc, "")
    /\ \A i \in 1..Len(calls) : calls[i].fn = "reviver"
    /\ calls[Len(calls)].this_val.tag = "Object"
    /\ TreeKeys(calls[Len(calls)].this_val) = <<"">>
    /\ \A i \in 1..Len(calls) :
         calls[i].val = TreeGetProperty(calls[i].this_val, calls[i].key)
    /\ call.reviver # Reviver_DeleteB =>
         /\ CallKeys = PostOrderKeys(call.doc, "")
         /\ ret = Revived(call.reviver, "", call.doc)

\* {"a": 1, "b": [1]} with (k, v) => v === 1 ? undefined : v gives {"b": [<hole>]}
\* after the calls for a, 0, b and ""
C17_Witness ==
  /\ json_pc = "done"
  /\ call.reviver = Reviver_DropOnes
  /\ call.doc = JS_NewObjectOf(<< <<"a", JS_NewInt32(1)>>,
                                  <<"b", JS_NewArrayOf(<<JS_NewInt32(1)>>)>> >>)
  /\ ret = JS_NewObjectOf(<< <<"b", JS_NewArrayOf(<<HOLE>>)>> >>)
  /\ CallKeys = <<"a", "0", "b", "">>
\* a result other than undefined replaces the child
C17_WitnessReplace ==
  /\ json_pc = "done"
  /\ call.reviver = Reviver_KeyA
  /\ call.doc = JS_NewArrayOf(<<JS_NewObjectOf(<< <<"a", JS_NewInt32(1)>> >>)>>)
  /\ ret = JS_NewArrayOf(<<JS_NewObjectOf(<< <<"a", JS_NewInt32(7)>> >>)>>)
\* a property the reviver deleted from its holder is still visited, once,
\* with undefined
C17_WitnessDeleted ==
  /\ json_pc = "done"
  /\ call.reviver = Reviver_DeleteB
  /\ call.doc = JS_NewObjectOf(<< <<"a", JS_NewInt32(1)>>, <<"b", JS_NewInt32(1)>> >>)
  /\ ret = JS_NewObjectOf(<< <<"a", JS_NewInt32(1)>> >>)
  /\ CallKeys = <<"a", "b", "">>
  /\ calls[2].val = JS_UNDEFINED
\* the properties of a value the reviver deleted are not visited:
\* {"a": 1, "b": [1]} gives calls for a, b and "" only
C17_WitnessSkipped ==
  /\ json_pc = "done"
  /\ call.reviver = Reviver_DeleteB
  /\ call.doc = JS_NewObjectOf(<< <<"a", JS_NewInt32(1)>>,
                                  <<"b", JS_NewArrayOf(<<JS_NewInt32(1)>>)>> >>)
  /\ CallKeys = <<"a", "b", "">>
  /\ PostOrderKeys(call.doc, "") = <<"a", "0", "b", "">>

(***************************************************************************)
(* JSON.stringify with every kind of space argument (specification         *)
(* SpecJsonGap): the value is [1, {"a": 1}] or an empty array.             *)
(***************************************************************************)
MaxSpace == 12
GapChars == <<"a", "b", "c", "d", "e", "f", "g", "h", "i", "j", "k", "l", "m">>
GapString(n) == JS_NewStringChars(SubSeq(GapChars, 1, n))
GapSpaces ==
  {JS_NewInt32(n) : n \in (0 - 2)..MaxSpace}
  \cup {JS_NewInt64(I64Add(MAX_SAFE_INTEGER, I64(0)))}
  \cup {GapString(n) : n \in 0..MaxSpace}
  \cup {JS_NewPrimitiveObject("JS_CLASS_NUMBER", JS_NewInt32(n)) : n \in {3, MaxSpace}}
  \cup {JS_NewPrimitiveObject("JS_CLASS_STRING", GapString(n)) : n \in {3, MaxSpace}}
  \cup {JS_UNDEFINED, JS_NULL, JS_NewBool(TRUE), JS_MKOBJ(2), PlainFunction,
        JS_NewPrimitiveObject("JS_CLASS_BOOLEAN", JS_NewBool(TRUE))}
GapHeaps ==
  {[id \in {1, 2} |-> IF id = 1 THEN MkHeapObject("Array", <<a1, b1>>, JS_UNDEFINED)
                      ELSE MkHeapObject("Object", <<JS_NewInt32(1)>>, JS_UNDEFINED)] :
     a1 \in {HOLE, JS_NewInt32(1)}, b1 \in {HOLE, JS_MKOBJ(2)}}

InitJsonGap ==
  /\ heap \in {h \in GapHeaps : h[1].elems[1] = HOLE => h[1].elems[2] = HOLE}
  /\ \E space \in GapSpaces :
       call = [fn |-> "stringify", obj |-> JS_MKOBJ(1), replacer |-> JS_UNDEFINED,
               space |-> space]
  /\ json_pc = "idle"
  /\ jsc = <<>>
  /\ frames = <<>>
  /\ cur = <<>>
  /\ calls = <<>>
  /\ current_exception = ""
  /\ parse_s = <<>>
  /\ ret = JS_UNDEFINED
  /\ ArrayIdle
  /\ SortIdle
  /\ IcIdle
  /\ GcIdle

SpecJsonGap == InitJsonGap /\ [][NextJson]_vars

\* the space argument with a Number or String object replaced by its value
SpaceValue ==
  IF call.space.tag = "object" /\ "class_id" \in DOMAIN call.space
     /\ call.space.class_id \in {"JS_CLASS_NUMBER", "JS_CLASS_STRING"}
  THEN call.space.object_data ELSE call.space
RECURSIVE Prefix(_, _)
\* the first n characters
Prefix(chars, n) ==
  IF n = 0 \/ chars = <<>> THEN "" ELSE chars[1] \o Prefix(Tail(chars), n - 1)
ExpectedGap ==
  IF SpaceValue.tag = "int"
  THEN SpacesN(IF SpaceValue.v < 0 THEN 0 ELSE IF SpaceValue.v > 10 THEN 10
               ELSE SpaceValue.v)
  ELSE IF SpaceValue.tag = "float64" THEN "          "
  ELSE IF SpaceValue.tag = "string"
  THEN Prefix(SpaceValue.chars,
              IF Len(SpaceValue.chars) < 10 THEN Len(SpaceValue.chars) ELSE 10)
  ELSE ""
\* the text of the value without any gap
CompactText ==
  IF heap[1].elems = <<HOLE, HOLE>> THEN "[null,null]"
  ELSE IF heap[1].elems[2] = HOLE THEN "[1,null]"
  ELSE "[1,{\"a\":1}]"

\* C18: the gap of JSON.stringify has at most ten characters: a number n
\* gives min(max(n, 0), 10) spaces, a string its first min(length, 10)
\* characters, anything else the empty gap, with which the text has no
\* newline and no indentation
C18_GapClamped ==
  json_pc # "idle" =>
    /\ Len(jsc.gap) <= 10
    /\ jsc.gap = ExpectedGap
    /\ (json_pc = "done" /\ ExpectedGap = "") => ret = JS_NewStringBuf(CompactText)
    /\ (json_pc = "done" /\ ExpectedGap # "" /\ heap[1].elems[2] # HOLE) =>
         ret = JS_NewStringBuf("[\n" \o jsc.gap \o "1,\n" \o jsc.gap \o "{\n"
                               \o jsc.gap \o jsc.gap \o "\"a\": 1\n" \o jsc.gap
                               \o "}\n]")

\* space 12 gives ten spaces
C18_Witness ==
  /\ json_pc = "done"
  /\ call.space = JS_NewInt32(MaxSpace)
  /\ jsc.gap = "          "
  /\ heap[1].elems[2] # HOLE
\* a string of twelve characters gives its first ten
C18_WitnessString ==
  /\ json_pc = "done"
  /\ call.space = GapString(12)
  /\ jsc.gap = "abcdefghij"
C18_WitnessNegative ==
  json_pc = "done" /\ call.space = JS_NewInt32(0 - 2) /\ jsc.gap = ""
    /\ ret = JS_NewStringBuf("[1,{\"a\":1}]")
\* a boolean, and a Boolean object, give no gap
C18_WitnessOther ==
  /\ json_pc = "done"
  /\ call.space = JS_NewPrimitiveObject("JS_CLASS_BOOLEAN", JS_NewBool(TRUE))
  /\ ret = JS_NewStringBuf("[1,{\"a\":1}]")
\* new Number(3) counts as 3
C18_WitnessNumberObject ==
  /\ json_pc = "done"
  /\ call.space = JS_NewPrimitiveObject("JS_CLASS_NUMBER", JS_NewInt32(3))
  /\ jsc.gap = "   "

(***************************************************************************)
(* expand_fast_array on every kind of capacity (specification SpecExpand). *)
(* u.array.u1.size is a uint32_t, kept as two limbs of 16 bits.            *)
(***************************************************************************)
U32(n) == [hi |-> n \div U16, lo |-> n % U16]            \* 0 <= n < 2^31
U32Add(a, k) ==                                          \* a + k modulo 2^32, k < 2^16
  [hi |-> (a.hi + (a.lo + k) \div U16) % U16, lo |-> (a.lo + k) % U16]
U32Lt(a, b) == a.hi < b.hi \/ (a.hi = b.hi /\ a.lo < b.lo)
U32Le(a, b) == ~U32Lt(b, a)
INT32_MAX == 2147483647

\* the new size without the comparison with new_len
expand_fast_array_size_grow_only(size, new_len, slack, alloc_ok) ==
  IF ~alloc_ok THEN [ret |-> -1, size |-> size]
  ELSE [ret |-> 0, size |-> U32Add(U32(u32_mul9_div2(size.hi, size.lo)), slack)]
\* expand_fast_array(ctx, p, new_len) on p->u.array.u1.size; slack is what
\* js_realloc2 reports, in elements
expand_fast_array_size(size, new_len, slack, alloc_ok) ==
  LET new_size == max_int(new_len, u32_mul9_div2(size.hi, size.lo))
  IN  IF ~alloc_ok THEN [ret |-> -1, size |-> size]
      ELSE [ret |-> 0, size |-> U32Add(U32(new_size), slack)]

\* capacities around the values where size * 9 leaves 32 bits, and small ones
ExpandSizes ==
  {U32(n) : n \in {0, 1, 2, 3, 4, 477218588, 477218589, 477218590, 954437177,
                   954437178, 1431655765, INT32_MAX}}
  \cup {[hi |-> 32768, lo |-> 0], [hi |-> 43690, lo |-> 43691],
        [hi |-> 65535, lo |-> 65535]}
ExpandLens(size) ==
  {U32(n) : n \in {1, 5, 100, 477218590, INT32_MAX}}
  \cup (IF size.hi < 32768 /\ size # U32(INT32_MAX) THEN {U32Add(size, 1)} ELSE {})
MaxSlack == 1

InitExpand ==
  /\ \E size \in ExpandSizes, slack \in 0..MaxSlack, alloc_ok \in BOOLEAN :
       \E new_len \in ExpandLens(size) :
         call = [fn |-> "expand_fast_array", size |-> size, new_len |-> new_len,
                 slack |-> slack, alloc_ok |-> alloc_ok]
  /\ ret = JS_UNDEFINED
  /\ this_obj = NoArray
  /\ pre_obj = NoArray
  /\ ret_arr = NoArray
  /\ SortIdle
  /\ OutsideArrayIdle

\* expand_fast_array, then the elements up to new_len stored: count = new_len
ExpandFastArray ==
  /\ call.fn = "expand_fast_array"
  /\ ret = JS_UNDEFINED
  /\ \E r \in {expand_fast_array_size(call.size, call.new_len.hi * U16 + call.new_len.lo,
                                      call.slack, call.alloc_ok)} :
       ret' = [tag |-> "int", v |-> r.ret, size |-> r.size,
               count |-> IF r.ret = 0 THEN call.new_len ELSE U32(0)]
  /\ UNCHANGED <<this_obj, pre_obj, ret_arr, call, sort_vars, outside_array>>

NextExpand == ExpandFastArray

SpecExpand == InitExpand /\ [][NextExpand]_vars

ExpandDone == ret # JS_UNDEFINED /\ ret.v = 0
\* the 32-bit product size * 9 has wrapped
Mul9Wraps(size) == U32Lt(U32(477218588), size)

C19_WitnessGrow ==
  ExpandDone /\ call.size = U32(4) /\ call.new_len = U32(5) /\ call.slack = 0
    /\ ret.size = U32(18)
\* a wrapped product and a new_len below the previous size: the size shrinks
C19_WitnessShrink ==
  /\ ExpandDone
  /\ call.size = U32(477218589)
  /\ call.new_len = U32(5)
  /\ call.slack = 0
  /\ ret.size = U32(5)

\* the objects and arrays whose serialization has started and not finished,
\* outermost first
AncestorChain == [i \in 1..Len(frames) |-> frames[i].val]
StackLen == jsc.stack.length.lo

\* C20: during JS_JSONStringify jsc->stack holds exactly the objects and
\* arrays whose serialization has started and not finished, outermost
\* first and each once; it grows only by the value visited, after the
\* membership test on it has failed, and shrinks only by its last entry
\* when that entry's serialization ends; it is empty when stringify has
\* returned a string
C20_DetectionStack ==
  /\ [](json_pc # "idle" =>
          /\ View(jsc.stack) = ViewOf(AncestorChain)
          /\ \A i, j \in 1..Len(frames) : frames[i].val = frames[j].val => i = j
          /\ (json_pc = "done" /\ ret.tag = "string") => StackLen = 0)
  /\ [][json_pc # "idle" =>
          /\ jsc'.stack.length.lo > StackLen =>
               /\ json_pc = "to_str" /\ cur.val.tag = "object"
               /\ ~BeingSerialized(cur.val)
               /\ View(jsc'.stack) = ViewOf(Append(AncestorChain, cur.val))
          /\ jsc'.stack.length.lo < StackLen =>
               /\ frames[Len(frames)].i >= frames[Len(frames)].len
               /\ View(jsc'.stack) = ViewOf(SubSeq(AncestorChain, 1, Len(frames) - 1))]_vars

\* [o, o] with o = {"a": 1}: o is serialized twice, without error
C20_Witness ==
  /\ json_pc = "done"
  /\ heap[1].class_id = "Array"
  /\ heap[1].elems = <<JS_MKOBJ(2), JS_MKOBJ(2)>>
  /\ heap[1].props = <<>>
  /\ heap[2].class_id = "Object"
  /\ heap[2].props = << <<"a", JS_NewInt32(1)>> >>
  /\ call.replacer = JS_UNDEFINED /\ call.space = JS_UNDEFINED
  /\ ret = JS_NewStringBuf("[{\"a\":1},{\"a\":1}]")
  /\ StackLen = 0
\* inside the second visit of o the stack holds the array and o
C20_WitnessNested ==
  /\ json_pc = "next"
  /\ heap[1].elems = <<JS_MKOBJ(2), JS_MKOBJ(2)>>
  /\ Len(frames) = 2
  /\ frames[1].i = 2
  /\ View(jsc.stack) = ViewOf(<<JS_MKOBJ(1), JS_MKOBJ(2)>>)
\* at the circular reference error the stack still holds the chain
C20_WitnessError ==
  /\ json_pc = "done"
  /\ current_exception = "TypeError: circular reference"
  /\ StackLen = 2

(***************************************************************************)
(* The fast paths of the Array builtins, one step at a time (specification *)
(* SpecFastPath).  A builtin is the sequence of its operations in source   *)
(* order; an operation that can run script may change the receiver in any  *)
(* way script can.  buf names the receiver's current values buffer: a      *)
(* reallocation or a conversion to a generic array gives a new name.  arrp *)
(* and count32 are what js_get_fast_array stored, acc the indices the fast *)
(* loop has still to read through arrp.                                    *)
(***************************************************************************)
FastFns == {"includes", "indexOf", "pop", "shift", "reverse", "slice",
            "js_append_enumerate", "JS_CopySubArray"}

\* js_array_includes with js_get_fast_array taken before the conversion of
\* fromIndex
FastProgram_early_snapshot(fn) ==
  CASE fn \in {"includes", "indexOf"} ->
         <<"length", "snapshot", "script", "fast", "generic", "return">>
    [] fn \in {"pop", "shift", "reverse"} ->
         <<"length", "snapshot", "require", "fast", "generic", "return">>
    [] fn = "slice" ->
         <<"length", "snapshot", "script", "script", "species", "fast", "generic",
           "return">>
    [] fn = "js_append_enumerate" ->
         <<"snapshot", "script", "script", "script", "length", "require", "fast",
           "generic", "return">>
    [] OTHER -> <<"copy", "return">>

\* the operations of each builtin, in source order
FastProgram(fn) ==
  CASE fn \in {"includes", "indexOf"} ->
         \* js_get_length64, JS_ToInt64Clamp(argv[1]), js_get_fast_array, the
         \* loop on arrp[n], the loop on JS_GetPropertyInt64
         <<"length", "script", "snapshot", "fast", "generic", "return">>
    [] fn \in {"pop", "shift", "reverse"} ->
         \* js_get_length64, js_get_fast_array && count32 == len, the fast
         \* case, the generic case
         <<"length", "snapshot", "require", "fast", "generic", "return">>
    [] fn = "slice" ->
         \* js_get_length64, JS_ToInt64Clamp of start and of end,
         \* JS_ArraySpeciesCreate, js_get_fast_array && js_is_fast_array(arr),
         \* the loop on arrp[k], the loop on JS_TryGetPropertyInt64
         <<"length", "script", "script", "species", "snapshot", "fast", "generic",
           "return">>
    [] fn = "js_append_enumerate" ->
         \* JS_GetProperty(Symbol.iterator), JS_GetIterator, JS_GetProperty(next),
         \* js_get_fast_array, js_get_length32, len != count32, the loop on
         \* arrp[i], the general case
         <<"script", "script", "script", "snapshot", "length", "require", "fast",
           "generic", "return">>
    [] OTHER -> <<"copy", "return">>

MaxFastLen == 2
FastReceivers ==
  UNION {{FastOf(L, n, e) : L \in {M \in Layouts(n) : HolesAreSuffix(M, n)}, e \in 0..1}
         : n \in 0..MaxFastLen}
  \cup UNION {{SlowOf(L, n) : L \in Layouts(n)} : n \in 1..1}

\* what script can do to the receiver: nothing, push a value (which may
\* reallocate), set length to 0 (which shrinks count), or define an index
\* far away (which makes the array generic and frees the buffer)
ScriptEffects(p, buf) ==
  {[p |-> p, buf |-> buf]}
  \cup (IF js_is_fast_array(p) /\ Len(p.values) <= MaxFastLen /\ p.length.lo = Len(p.values)
        THEN {LET r == add_fast_array_element(p, JS_NewInt32(9), 1000)
              IN  [p |-> r.p, buf |-> IF r.p.size # p.size THEN buf + 1 ELSE buf]}
        ELSE {})
  \cup (IF p.class_id = "Array" THEN {[p |-> JS_SetLength(p, I64(0)), buf |-> buf]}
        ELSE {})
  \cup (IF js_is_fast_array(p)
        THEN {[p |-> convert_fast_array_to_array(p), buf |-> buf + 1]}
        ELSE {})

RECURSIVE Range(_, _)
\* <<a, a + 1, .., b - 1>>
Range(a, b) == IF a >= b THEN <<>> ELSE <<a>> \o Range(a + 1, b)
RECURSIVE ReversePairs(_, _)
\* for (ll = 0, hh = count32 - 1; ll < hh; ll++, hh--): arrp[ll], arrp[hh]
ReversePairs(ll, hh) == IF ll >= hh THEN <<>> ELSE <<ll, hh>> \o ReversePairs(ll + 1, hh - 1)

\* the indices the fast loop of fn reads through arrp
FastAccesses(fn, count32, len, start) ==
  CASE fn \in {"includes", "indexOf"} ->
         IF len > 0 THEN Range(min_int(start, len), count32) ELSE <<>>
    [] fn = "pop" -> <<count32 - 1>>
    [] fn = "shift" -> Range(0, count32)
    [] fn = "reverse" -> ReversePairs(0, count32 - 1)
    [] fn = "slice" -> Range(min_int(start, len), min_int(len, count32))
    [] OTHER -> Range(0, count32)

NoAccess == [i |-> -1, ok |-> TRUE]
FastCall(fn, start, dir) ==
  [fn |-> fn, pc |-> 1, start |-> start, dir |-> dir, len |-> 0, arrp |-> 0,
   count32 |-> 0, acc |-> <<>>, buf |-> 1, arr |-> "none", n |-> 0, i |-> 0,
   last |-> NoAccess]
Op == IF call.fn \in FastFns THEN FastProgram(call.fn)[call.pc] ELSE "none"
\* the position of an operation in the program of the call
PcOf(op) == CHOOSE k \in 1..Len(FastProgram(call.fn)) : FastProgram(call.fn)[k] = op

InitFastPath ==
  /\ this_obj \in FastReceivers
  /\ pre_obj = this_obj
  /\ call = NoCall
  /\ ret = JS_UNDEFINED
  /\ ret_arr = NoArray
  /\ SortIdle
  /\ OutsideArrayIdle

FastEnter ==
  /\ call = NoCall
  /\ \E fn \in FastFns, start \in 0..1, dir \in {-1, 1} :
       /\ fn \notin {"includes", "indexOf", "slice", "JS_CopySubArray"} => start = 0
       /\ fn # "JS_CopySubArray" => dir = 1
       /\ call' = FastCall(fn, start, dir)
  /\ UNCHANGED <<this_obj, pre_obj, ret, ret_arr, sort_vars, outside_array>>

\* js_get_length64 / js_get_length32 on the receiver
FastLength ==
  /\ Op = "length"
  /\ call' = [call EXCEPT !.len = this_obj.length.lo, !.pc = @ + 1]
  /\ UNCHANGED <<this_obj, pre_obj, ret, ret_arr, sort_vars, outside_array>>

\* an operation that can run script
FastScript ==
  /\ Op = "script"
  /\ \E e \in ScriptEffects(this_obj, call.buf) :
       /\ this_obj' = e.p
       /\ call' = [call EXCEPT !.buf = e.buf, !.pc = @ + 1]
  /\ UNCHANGED <<pre_obj, ret, ret_arr, sort_vars, outside_array>>

\* JS_ArraySpeciesCreate: the constructor may run script and return a new
\* fast array, the receiver itself, or an object that is no fast array
FastSpecies ==
  /\ Op = "species"
  /\ \E e \in ScriptEffects(this_obj, call.buf), arr \in {"new", "obj", "other"} :
       /\ this_obj' = e.p
       /\ call' = [call EXCEPT !.buf = e.buf, !.arr = arr, !.pc = @ + 1]
  /\ UNCHANGED <<pre_obj, ret, ret_arr, sort_vars, outside_array>>

\* js_get_fast_array(ctx, obj, &arrp, &count32)
FastSnapshot ==
  /\ Op = "snapshot"
  /\ IF js_is_fast_array(this_obj)
        /\ (call.fn = "slice" => call.arr \in {"new", "obj"})
     THEN call' = [call EXCEPT
                     !.arrp = call.buf,
                     !.count32 = Len(this_obj.values),
                     !.acc = IF call.fn \in {"includes", "indexOf", "slice"}
                             THEN FastAccesses(call.fn, Len(this_obj.values), call.len,
                                               call.start)
                             ELSE <<>>,
                     !.pc = @ + 1]
     ELSE call' = [call EXCEPT !.pc = PcOf("generic")]
  /\ UNCHANGED <<this_obj, pre_obj, ret, ret_arr, sort_vars, outside_array>>

\* count32 == len (and len > 0 for pop and shift), or the generic case
FastRequire ==
  /\ Op = "require"
  /\ IF call.count32 = call.len /\ (call.fn \in {"pop", "shift"} => call.len > 0)
     THEN call' = [call EXCEPT
                     !.acc = FastAccesses(call.fn, call.count32, call.len, call.start),
                     !.pc = @ + 1]
     ELSE call' = [call EXCEPT !.arrp = 0, !.pc = PcOf("generic")]
  /\ UNCHANGED <<this_obj, pre_obj, ret, ret_arr, sort_vars, outside_array>>

\* whether reading index i through the stored pointer is sound now
AccessOk(p, c, i) ==
  js_is_fast_array(p) /\ c.arrp = c.buf /\ i >= 0 /\ i < Len(p.values)

RECURSIVE Reversed(_)
Reversed(s) == IF s = <<>> THEN <<>> ELSE Append(Reversed(Tail(s)), Head(s))

\* one read arrp[i] of the fast loop with the rest of the loop body, or the
\* end of the loop
FastAccess ==
  /\ Op = "fast"
  /\ IF call.acc # <<>>
     THEN LET i == Head(call.acc)
          IN  /\ call' = [call EXCEPT !.acc = Tail(@), !.n = @ + 1,
                                      !.last = [i |-> i, ok |-> AccessOk(this_obj, call, i)]]
              \* JS_CreateDataPropertyUint32(arr, n, arrp[k]) when arr is the
              \* receiver: index n <= k is set in place
              /\ this_obj' = IF call.fn = "slice" /\ call.arr = "obj"
                                /\ AccessOk(this_obj, call, i) /\ call.n <= i
                             THEN [this_obj EXCEPT !.values[call.n + 1] =
                                                      this_obj.values[i + 1]]
                             ELSE this_obj
     ELSE /\ call' = [call EXCEPT !.pc = IF call.fn \in {"includes", "indexOf", "slice"}
                                         THEN @ + 1 ELSE PcOf("return")]
          /\ this_obj' =
               IF ~js_is_fast_array(this_obj) \/ call.count32 # Len(this_obj.values)
               THEN this_obj
               ELSE CASE call.fn = "pop" ->
                           JS_SetLength([this_obj EXCEPT !.values =
                                           SubSeq(@, 1, Len(@) - 1)], I64(call.len - 1))
                      [] call.fn = "shift" ->
                           JS_SetLength([this_obj EXCEPT !.values = Tail(@)],
                                        I64(call.len - 1))
                      [] call.fn = "reverse" ->
                           [this_obj EXCEPT !.values = Reversed(@)]
                      [] OTHER -> this_obj
  /\ UNCHANGED <<pre_obj, ret, ret_arr, sort_vars, outside_array>>

\* the per-index path: every index is read with an operation that can run
\* script
FastGeneric ==
  /\ Op = "generic"
  /\ \E e \in ScriptEffects(this_obj, call.buf) :
       /\ this_obj' = e.p
       /\ call' = [call EXCEPT !.buf = e.buf, !.arrp = 0, !.i = @ + 1,
                               !.pc = IF call.i + 1 >= call.len THEN @ + 1 ELSE @]
  /\ UNCHANGED <<pre_obj, ret, ret_arr, sort_vars, outside_array>>

\* one turn of the loop of JS_CopySubArray(obj, to_pos = 0 or 1, from_pos =
\* 1 or 0, count, dir): a run of set_value through p->u.array.u.values
\* while from and to are below p->u.array.count, read in this turn, or one
\* index with TryGet and Set or Delete
FastCopy ==
  /\ Op = "copy"
  /\ LET count == max_int(pre_obj.length.lo - 1, 0)
         from_pos == 1 - call.start
         to_pos == call.start
         from == IF call.dir < 0 THEN from_pos + count - call.i - 1 ELSE from_pos + call.i
         to == IF call.dir < 0 THEN to_pos + count - call.i - 1 ELSE to_pos + call.i
         len == Len(this_obj.values)
     IN  IF call.acc # <<>>
         THEN \* values[to -/+ j] = values[from -/+ j]
              LET f == call.acc[1]
                  t == call.acc[2]
              IN  /\ call' = [call EXCEPT
                                !.acc = SubSeq(@, 3, Len(@)), !.i = @ + 1,
                                !.last = [i |-> max_int(f, t),
                                          ok |-> AccessOk(this_obj, call, f)
                                                 /\ AccessOk(this_obj, call, t)]]
                  /\ this_obj' = IF AccessOk(this_obj, call, f) /\ AccessOk(this_obj, call, t)
                                 THEN [this_obj EXCEPT !.values[t + 1] = this_obj.values[f + 1]]
                                 ELSE this_obj
         ELSE IF call.i >= count
         THEN call' = [call EXCEPT !.pc = @ + 1] /\ this_obj' = this_obj
         ELSE IF js_is_fast_array(pre_obj) /\ js_is_fast_array(this_obj)
                 /\ from >= 0 /\ from < len /\ to >= 0 /\ to < len
         THEN LET l0 == count - call.i
                  l == IF call.dir < 0 THEN min_int(min_int(l0, from + 1), to + 1)
                       ELSE min_int(min_int(l0, len - from), len - to)
                  pairs == [j \in 1..(2 * l) |->
                              LET d == (j - 1) \div 2
                                  b == IF j % 2 = 1 THEN from ELSE to
                              IN  IF call.dir < 0 THEN b - d ELSE b + d]
              IN  /\ call' = [call EXCEPT !.arrp = call.buf, !.count32 = len,
                                          !.acc = pairs]
                  /\ this_obj' = this_obj
         ELSE \E e \in ScriptEffects(this_obj, call.buf) :
                /\ this_obj' = e.p
                /\ call' = [call EXCEPT !.buf = e.buf, !.arrp = 0, !.i = @ + 1]
  /\ UNCHANGED <<pre_obj, ret, ret_arr, sort_vars, outside_array>>

NextFastPath ==
  \/ FastEnter \/ FastLength \/ FastScript \/ FastSpecies \/ FastSnapshot
  \/ FastRequire \/ FastAccess \/ FastGeneric \/ FastCopy

SpecFastPath == InitFastPath /\ [][NextFastPath]_vars

InFastCall == call # NoCall /\ call.fn \in FastFns

\* C21: in the fast paths of includes, indexOf, pop, shift, reverse, slice,
\* js_append_enumerate and JS_CopySubArray, while reads through the pointer
\* and count taken from the fast array are still to come the receiver is a
\* fast array, the pointer is its current buffer and every index to be
\* read is below its count; every read made was sound; no step that can
\* run script or reallocate is taken in between
C21_FastPathPointer ==
  /\ [](InFastCall =>
          /\ call.last.ok
          /\ call.acc # <<>> =>
               /\ js_is_fast_array(this_obj)
               /\ call.arrp = call.buf
               /\ \A j \in 1..Len(call.acc) : call.acc[j] < Len(this_obj.values))
  /\ [][(InFastCall /\ call.acc # <<>>) =>
          /\ call'.buf = call.buf
          /\ Len(this_obj'.values) = Len(this_obj.values)
          /\ this_obj'.fast_array]_vars

\* includes read arrp[1] after script had pushed an element during the
\* conversion of fromIndex and the buffer had moved
C21_Witness ==
  /\ InFastCall
  /\ call.fn = "includes"
  /\ call.buf > 1
  /\ call.last = [i |-> 1, ok |-> TRUE]
\* slice whose species constructor returned the receiver
C21_WitnessSpecies ==
  InFastCall /\ call.fn = "slice" /\ call.arr = "obj" /\ call.last.i = 1
    /\ call.start = 1
\* the receiver was made generic before js_get_fast_array: no read at all
C21_WitnessGeneric ==
  /\ InFastCall
  /\ call.fn = "indexOf"
  /\ ~this_obj.fast_array /\ pre_obj.fast_array
  /\ Op = "return"
  /\ call.last = NoAccess
C21_WitnessCopy ==
  InFastCall /\ call.fn = "JS_CopySubArray" /\ call.last.i = 1 /\ call.dir = -1
    /\ Op = "return"
C21_WitnessShift == InFastCall /\ call.fn = "shift" /\ call.last.i = 1 /\ Op = "return"

(***************************************************************************)
(* js_array_reverse(this_val)                                              *)
(***************************************************************************)
RECURSIVE reverse_fast(_, _, _)
\* for (ll = 0, hh = count32 - 1; ll < hh; ll++, hh--) swap arrp[ll], arrp[hh]
reverse_fast(arrp, ll, hh) ==
  IF ll >= hh THEN arrp
  ELSE reverse_fast([arrp EXCEPT ![ll + 1] = arrp[hh + 1], ![hh + 1] = arrp[ll + 1]],
                    ll + 1, hh - 1)

RECURSIVE reverse_generic(_, _, _, _)
\* for (l = 0, h = len - 1; l < h; l++, h--): TryGet both, Set or Delete
reverse_generic(p, l, h, malloc_limit) ==
  IF l >= h THEN [val |-> JS_MKOBJ(1), p |-> p]
  ELSE LET lg == JS_TryGetPropertyInt64(p, l)
           hg == JS_TryGetPropertyInt64(p, h)
       IN  IF hg.present = 1
           THEN LET s == JS_SetPropertyInt64(p, l, hg.val, malloc_limit)
                IN  IF s.ret < 0 THEN [val |-> JS_EXCEPTION, p |-> s.p]
                    ELSE IF lg.present = 1
                    THEN LET t == JS_SetPropertyInt64(s.p, h, lg.val, malloc_limit)
                         IN  IF t.ret < 0 THEN [val |-> JS_EXCEPTION, p |-> t.p]
                             ELSE reverse_generic(t.p, l + 1, h - 1, malloc_limit)
                    ELSE reverse_generic(JS_DeletePropertyInt64(s.p, h), l + 1, h - 1,
                                         malloc_limit)
           ELSE IF lg.present = 1
           THEN LET t == JS_SetPropertyInt64(JS_DeletePropertyInt64(p, l), h, lg.val,
                                             malloc_limit)
                IN  IF t.ret < 0 THEN [val |-> JS_EXCEPTION, p |-> t.p]
                    ELSE reverse_generic(t.p, l + 1, h - 1, malloc_limit)
           ELSE reverse_generic(p, l + 1, h - 1, malloc_limit)

\* reverse that swaps the stored values without comparing count32 with len
js_array_reverse_unchecked(p, malloc_limit) ==
  LET len == js_get_length64(p).lo
  IN  IF js_is_fast_array(p)
      THEN [val |-> JS_MKOBJ(1),
            p |-> [p EXCEPT !.values = reverse_fast(p.values, 0, Len(p.values) - 1)]]
      ELSE reverse_generic(p, 0, len - 1, malloc_limit)

\* the result is the receiver itself, JS_MKOBJ(1), or JS_EXCEPTION
js_array_reverse(p, malloc_limit) ==
  LET len == js_get_length64(p).lo
  IN  IF js_is_fast_array(p) /\ Len(p.values) = len
      THEN [val |-> JS_MKOBJ(1),
            p |-> [p EXCEPT !.values = reverse_fast(p.values, 0, Len(p.values) - 1)]]
      ELSE reverse_generic(p, 0, len - 1, malloc_limit)

(***************************************************************************)
(* js_array_indexOf(this_val, argv[0] = v, argv[1] = from when argc > 1)   *)
(***************************************************************************)
RECURSIVE indexOf_fast(_, _, _, _)
\* for (; n < count; n++) if (js_strict_eq2(argv[0], arrp[n])) res = n
indexOf_fast(arrp, count, n, v) ==
  IF n >= count THEN [res |-> -1, n |-> n]
  ELSE IF js_strict_eq2(v, arrp[n + 1]) THEN [res |-> n, n |-> n]
  ELSE indexOf_fast(arrp, count, n + 1, v)

RECURSIVE indexOf_generic_get(_, _, _, _)
\* the loop of js_array_includes, which reads an absent index as undefined
indexOf_generic_get(p, len, n, v) ==
  IF n >= len THEN -1
  ELSE IF js_strict_eq2(v, JS_GetPropertyInt64(p, n)) THEN n
  ELSE indexOf_generic_get(p, len, n + 1, v)

RECURSIVE indexOf_generic(_, _, _, _)
\* for (; n < len; n++) if (present && js_strict_eq2(argv[0], val)) res = n
indexOf_generic(p, len, n, v) ==
  IF n >= len THEN -1
  ELSE LET g == JS_TryGetPropertyInt64(p, n)
       IN  IF g.present = 1 /\ js_strict_eq2(v, g.val) THEN n
           ELSE indexOf_generic(p, len, n + 1, v)

js_array_indexOf(p, argc, v, from) ==
  LET len64 == js_get_length64(p)
      len == len64.lo
  IN  IF len > 0
      THEN LET n0 == IF argc > 1 THEN JS_ToInt64Clamp(from, len64, len64).lo ELSE 0
               f == IF js_is_fast_array(p)
                    THEN indexOf_fast(p.values, Len(p.values), n0, v)
                    ELSE [res |-> -1, n |-> n0]
           IN  IF f.res >= 0 THEN JS_NewInt32(f.res)
               ELSE JS_NewInt32(indexOf_generic(p, len, f.n, v))
      ELSE JS_NewInt32(-1)

(***************************************************************************)
(* The builtins with a fast path, applied to a fast array (specification   *)
(* SpecFastEq); the same call on the same array in its generic             *)
(* representation is the per-index path.                                   *)
(***************************************************************************)
FastArrays == {p \in InitArrays : js_is_fast_array(p)}
SearchValues == {JS_UNDEFINED, JS_NewInt32(1), JS_NewInt32(2), JS_NewInt32(7)}

InitFastEq ==
  /\ this_obj \in FastArrays
  /\ pre_obj = this_obj
  /\ call = NoCall
  /\ ret = JS_UNDEFINED
  /\ ret_arr = NoArray
  /\ SortIdle
  /\ OutsideArrayIdle

EqPop ==
  /\ call = NoCall
  /\ \E shift \in BOOLEAN :
       LET r == js_array_pop(this_obj, shift)
       IN  /\ this_obj' = r.p
           /\ ret' = r.val
           /\ call' = [fn |-> "pop", shift |-> shift]
  /\ UNCHANGED <<pre_obj, ret_arr, sort_vars, outside_array>>

EqReverse ==
  /\ call = NoCall
  /\ LET r == js_array_reverse(this_obj, 1000)
     IN  /\ this_obj' = r.p
         /\ ret' = r.val
         /\ call' = [fn |-> "reverse"]
  /\ UNCHANGED <<pre_obj, ret_arr, sort_vars, outside_array>>

EqIncludes ==
  /\ call = NoCall
  /\ \E v \in SearchValues, argc \in 1..2, from \in -2..MaxArrayLen :
       /\ argc = 1 => from = 0
       /\ ret' = js_array_includes(this_obj, argc, v, from)
       /\ call' = [fn |-> "includes", argc |-> argc, v |-> v, from |-> from]
  /\ UNCHANGED <<this_obj, pre_obj, ret_arr, sort_vars, outside_array>>

EqIndexOf ==
  /\ call = NoCall
  /\ \E v \in SearchValues, argc \in 1..2, from \in -2..MaxArrayLen :
       /\ argc = 1 => from = 0
       /\ ret' = js_array_indexOf(this_obj, argc, v, from)
       /\ call' = [fn |-> "indexOf", argc |-> argc, v |-> v, from |-> from]
  /\ UNCHANGED <<this_obj, pre_obj, ret_arr, sort_vars, outside_array>>

EqSlice ==
  /\ call = NoCall
  /\ \E argc \in 0..2, arg0 \in -1..MaxArrayLen, arg1 \in -1..MaxArrayLen :
       /\ argc = 0 => arg0 = 0
       /\ argc < 2 => arg1 = 0
       /\ \E r \in {js_array_slice(this_obj, argc, arg0, arg1, <<>>, FALSE, 1000)} :
            /\ this_obj' = r.p
            /\ ret' = r.val
            /\ ret_arr' = r.arr
       /\ call' = [fn |-> "slice", argc |-> argc, arg0 |-> arg0, arg1 |-> arg1]
  /\ UNCHANGED <<pre_obj, sort_vars, outside_array>>

EqCopySubArray ==
  /\ call = NoCall
  /\ \E to_pos \in 0..MaxArrayLen, from_pos \in 0..MaxArrayLen, count \in 0..MaxArrayLen :
       /\ to_pos + count <= this_obj.length.lo
       /\ from_pos + count <= this_obj.length.lo
       /\ LET dir == IF from_pos < to_pos /\ to_pos < from_pos + count THEN -1 ELSE 1
              r == JS_CopySubArray(this_obj, to_pos, from_pos, count, dir, 1000)
          IN  /\ this_obj' = r.p
              /\ ret' = JS_NewInt32(r.ret)
              /\ call' = [fn |-> "JS_CopySubArray", to_pos |-> to_pos,
                          from_pos |-> from_pos, count |-> count, dir |-> dir]
  /\ UNCHANGED <<pre_obj, ret_arr, sort_vars, outside_array>>

NextFastEq == EqPop \/ EqReverse \/ EqIncludes \/ EqIndexOf \/ EqSlice \/ EqCopySubArray

SpecFastEq == InitFastEq /\ [][NextFastEq]_vars

\* the call made, on the receiver in its generic representation
GenericOutcome ==
  LET g == convert_fast_array_to_array(pre_obj)
  IN  CASE call.fn = "pop" ->
             LET r == js_array_pop(g, call.shift)
             IN  [val |-> r.val, p |-> View(r.p), arr |-> View(NoArray)]
        [] call.fn = "reverse" ->
             LET r == js_array_reverse(g, 1000)
             IN  [val |-> r.val, p |-> View(r.p), arr |-> View(NoArray)]
        [] call.fn = "includes" ->
             [val |-> js_array_includes(g, call.argc, call.v, call.from),
              p |-> View(g), arr |-> View(NoArray)]
        [] call.fn = "indexOf" ->
             [val |-> js_array_indexOf(g, call.argc, call.v, call.from),
              p |-> View(g), arr |-> View(NoArray)]
        [] call.fn = "slice" ->
             LET r == js_array_slice(g, call.argc, call.arg0, call.arg1, <<>>, FALSE, 1000)
             IN  [val |-> r.val, p |-> View(r.p), arr |-> View(r.arr)]
        [] OTHER ->
             LET r == JS_CopySubArray(g, call.to_pos, call.from_pos, call.count,
                                      call.dir, 1000)
             IN  [val |-> JS_NewInt32(r.ret), p |-> View(r.p), arr |-> View(NoArray)]

EqFns == {"pop", "reverse", "includes", "indexOf", "slice", "JS_CopySubArray"}

\* C22: on a fast array, pop, shift, reverse, includes, indexOf, slice and
\* JS_CopySubArray return the same value and leave the same length and,
\* index by index, the same element or hole as the per-index path does on
\* the same array; this includes the receivers whose length exceeds the
\* number of stored values, where pop, shift and reverse do not take the
\* fast path and includes, indexOf and slice finish with the generic loop
C22_FastEqualsGeneric ==
  call.fn \in EqFns =>
    /\ ret = GenericOutcome.val
    /\ View(this_obj) = GenericOutcome.p
    /\ View(ret_arr) = GenericOutcome.arr

\* reverse of a fast array of three stored values and length 4
C22_Witness ==
  /\ call.fn = "reverse"
  /\ pre_obj.fast_array /\ Len(pre_obj.values) = 3 /\ pre_obj.length.lo = 4
  /\ View(this_obj).elems[0] = HOLE
  /\ View(this_obj).elems[3] = pre_obj.values[1]
C22_WitnessFastReverse ==
  /\ call.fn = "reverse"
  /\ Len(pre_obj.values) = 3 /\ pre_obj.length.lo = 3
  /\ this_obj.fast_array /\ this_obj.values[1] = pre_obj.values[3]
  /\ this_obj.values[1] # this_obj.values[3]
C22_WitnessShift ==
  /\ call.fn = "pop" /\ call.shift
  /\ Len(pre_obj.values) = 3 /\ pre_obj.length.lo = 3
  /\ ret = pre_obj.values[1] /\ this_obj.values = Tail(pre_obj.values)
C22_WitnessPopHole ==
  /\ call.fn = "pop" /\ ~call.shift
  /\ Len(pre_obj.values) = 2 /\ pre_obj.length.lo = 3
  /\ ret = JS_UNDEFINED /\ this_obj.length.lo = 2 /\ Len(this_obj.values) = 2
C22_WitnessIncludesTail ==
  /\ call.fn = "includes" /\ call.v = JS_UNDEFINED
  /\ Len(pre_obj.values) = 2 /\ pre_obj.length.lo = 3
  /\ JS_UNDEFINED \notin {pre_obj.values[i] : i \in 1..2}
  /\ ret = JS_NewBool(TRUE)
C22_WitnessIndexOfTail ==
  /\ call.fn = "indexOf" /\ call.v = JS_UNDEFINED
  /\ Len(pre_obj.values) = 2 /\ pre_obj.length.lo = 3
  /\ JS_UNDEFINED \notin {pre_obj.values[i] : i \in 1..2}
  /\ ret = JS_NewInt32(-1)
C22_WitnessSlice ==
  /\ call.fn = "slice" /\ call.argc = 1 /\ call.arg0 = 1
  /\ Len(pre_obj.values) = 2 /\ pre_obj.length.lo = 4
  /\ View(ret_arr).len = 3 /\ View(ret_arr).elems[0] = pre_obj.values[2]
  /\ View(ret_arr).elems[1] = HOLE
C22_WitnessCopy ==
  /\ call.fn = "JS_CopySubArray" /\ call.dir = -1 /\ call.count = 2
  /\ Len(pre_obj.values) = 3 /\ pre_obj.length.lo = 3
  /\ this_obj.values[3] = pre_obj.values[2]

(***************************************************************************)
(* js_array_every(this_val, argc, argv, special): who owns what            *)
(* (specification SpecEvery).  rc counts, per local variable of the        *)
(* function, the references the function has taken and not yet given       *)
(* back; val and ret say whether the local holds a reference or a constant *)
(* (JS_UNDEFINED, JS_TRUE, JS_FALSE).  What the callees do is drawn from   *)
(* an outcome: failure or success, present or absent, truthy or falsy.     *)
(***************************************************************************)
Specials == {"every", "some", "map", "filter"}
EveryLocals == {"obj", "val", "ret", "arr", "res", "index_val"}
NoRefs == [x \in EveryLocals |-> 0]
MaxEveryLen == 2

\* JS_FreeValue(ctx, x) for the local x: a constant has no reference count
JS_FreeValue(c, x) ==
  IF x \in {"val", "ret"} /\ c[x] # "owned" THEN c
  ELSE [c EXCEPT !.rc[x] = @ - 1]
\* the local x receives a reference of its own
Own(c, x) == [c EXCEPT !.rc[x] = @ + 1]

\* exception: that frees ret and obj but not val
every_exception_keep_val(c) ==
  [JS_FreeValue(JS_FreeValue(c, "ret"), "obj")
     EXCEPT !.pc = "return", !.result = "exception"]

\* exception: JS_FreeValue(ret); JS_FreeValue(val); JS_FreeValue(obj)
every_exception(c) ==
  [JS_FreeValue(JS_FreeValue(JS_FreeValue(c, "ret"), "val"), "obj")
     EXCEPT !.pc = "return", !.result = "exception"]

\* from the entry to n = 0: obj, the length, check_function, the switch
every_enter(special, ta, len, o) ==
  LET c0 == [fn |-> "every", special |-> special, ta |-> ta, pc |-> "loop", k |-> 0,
             n |-> 0, len |-> len, val |-> "undef", ret |-> "undef", rc |-> NoRefs,
             result |-> "none", failed |-> "none", calls |-> 0]
      c1 == Own(c0, "obj")
  IN  IF ~o.len_ok THEN every_exception([c1 EXCEPT !.failed = "length"])
      ELSE IF ~o.func_ok THEN every_exception([c1 EXCEPT !.failed = "check_function"])
      ELSE IF special \in {"every", "some"} THEN [c1 EXCEPT !.ret = "const"]
      ELSE \* JS_ArraySpeciesCreate, js_typed_array___speciesCreate or JS_NewArray
           IF ~o.create_ok
           THEN every_exception([c1 EXCEPT !.ret = "exception", !.failed = "create"])
           ELSE Own([c1 EXCEPT !.ret = "owned"], "ret")

\* done: for a typed array filter the species array and its set call, then
\* JS_FreeValue(val); JS_FreeValue(obj); return ret
every_done(c, o) ==
  LET fin(d) == [JS_FreeValue(JS_FreeValue(d, "val"), "obj")
                   EXCEPT !.pc = "return", !.result = "ret"]
  IN  IF c.special = "filter" /\ c.ta
      THEN IF ~o.create_ok THEN every_exception([c EXCEPT !.failed = "arr"])
           ELSE LET c1 == Own(c, "arr")
                    \* res = JS_Invoke(arr, set, ret); check_exception_free(res)
                    c2 == JS_FreeValue(Own(c1, "res"), "res")
                IN  IF ~o.set_ok THEN every_exception([c1 EXCEPT !.failed = "set"])
                    ELSE \* JS_FreeValue(ret); ret = arr
                         fin([JS_FreeValue(c2, "ret")
                                EXCEPT !.rc["ret"] = c2.rc["ret"] - 1 + c2.rc["arr"],
                                       !.rc["arr"] = 0])
      ELSE fin(c)

\* one turn of for (k = 0; k < len; k++)
every_iter(c, o) ==
  LET next(d) == [d EXCEPT !.k = @ + 1]
  IN  IF o.present < 0 THEN every_exception([c EXCEPT !.failed = "get"])
      ELSE IF o.present = 0 THEN next(c)
      ELSE LET c1 == Own([c EXCEPT !.val = "owned", !.calls = @ + 1], "val")
               \* index_val = JS_NewInt64(k); res = JS_Call(...);
               \* JS_FreeValue(index_val)
               c2 == JS_FreeValue(Own(c1, "index_val"), "index_val")
           IN  IF ~o.call_ok THEN every_exception([c2 EXCEPT !.failed = "call"])
               ELSE LET c3 == Own(c2, "res")
                        \* JS_ToBoolFree(res), or res handed to the callee
                        c4 == JS_FreeValue(c3, "res")
                        \* JS_FreeValue(val); val = JS_UNDEFINED
                        rel(d) == next([JS_FreeValue(d, "val") EXCEPT !.val = "undef"])
                    IN  CASE c.special = "every" ->
                               IF ~o.truthy
                               THEN [c4 EXCEPT !.ret = "const", !.pc = "done"]
                               ELSE rel(c4)
                          [] c.special = "some" ->
                               IF o.truthy
                               THEN [c4 EXCEPT !.ret = "const", !.pc = "done"]
                               ELSE rel(c4)
                          [] c.special = "map" ->
                               \* JS_DefinePropertyValueInt64 or
                               \* JS_SetPropertyValue takes res
                               IF ~o.define_ok
                               THEN every_exception([c4 EXCEPT !.failed = "define"])
                               ELSE rel(c4)
                          [] OTHER ->
                               \* filter: JS_DupValue(val) is taken by the define
                               IF o.truthy
                               THEN IF ~o.define_ok
                                    THEN every_exception([c4 EXCEPT !.failed = "define"])
                                    ELSE rel([c4 EXCEPT !.n = @ + 1])
                               ELSE rel(c4)

EnterOutcomes == [len_ok : BOOLEAN, func_ok : BOOLEAN, create_ok : BOOLEAN]
IterOutcomes ==
  [present : {-1, 0, 1}, call_ok : BOOLEAN, truthy : BOOLEAN, define_ok : BOOLEAN]
DoneOutcomes == [create_ok : BOOLEAN, set_ok : BOOLEAN]

InitEvery ==
  /\ ArrayIdle
  /\ call = NoCall
  /\ ret = JS_UNDEFINED
  /\ SortIdle
  /\ OutsideArrayIdle

EveryEnter ==
  /\ call = NoCall
  /\ \E special \in Specials, ta \in BOOLEAN, len \in 0..MaxEveryLen, o \in EnterOutcomes :
       \* a typed array's length cannot fail once it is a typed array
       /\ \E c \in {every_enter(special, ta, len, o)} : call' = c
  /\ UNCHANGED <<this_obj, pre_obj, ret, ret_arr, sort_vars, outside_array>>

EveryIter ==
  /\ call # NoCall /\ call.fn = "every" /\ call.pc = "loop" /\ call.k < call.len
  /\ \E o \in IterOutcomes :
       \* a typed array element is always present
       /\ call.ta => o.present # 0
       /\ \E c \in {every_iter(call, o)} : call' = c
  /\ UNCHANGED <<this_obj, pre_obj, ret, ret_arr, sort_vars, outside_array>>

EveryDone ==
  /\ call # NoCall /\ call.fn = "every"
  /\ call.pc = "done" \/ (call.pc = "loop" /\ call.k >= call.len)
  /\ \E o \in DoneOutcomes :
       \E c \in {every_done(call, o)} : call' = c
  /\ UNCHANGED <<this_obj, pre_obj, ret, ret_arr, sort_vars, outside_array>>

NextEvery == EveryEnter \/ EveryIter \/ EveryDone

SpecEvery == InitEvery /\ [][NextEvery]_vars

InEvery == call # NoCall /\ call.fn = "every"
EveryReturned == InEvery /\ call.pc = "return"
\* the references the caller receives with the return value
Returned(x) ==
  IF x = "ret" /\ call.result = "ret" /\ call.ret = "owned" THEN 1 ELSE 0

\* C23 as stated: at every return of js_array_every each of obj, val, ret
\* and arr has been released exactly once or returned, and none is ever
\* released more often than it was taken
C23_AsStated ==
  /\ InEvery => \A x \in EveryLocals : call.rc[x] >= 0
  /\ EveryReturned => \A x \in EveryLocals : call.rc[x] = Returned(x)

\* C23, without the one leaking path: no local is released more often
\* than it was taken; at every return obj, val, ret, res and index_val
\* have been released exactly once or returned; arr too unless its set
\* call failed, and then exactly one reference to arr is left behind
C23_OwnedValues ==
  /\ InEvery => \A x \in EveryLocals : call.rc[x] >= 0
  /\ EveryReturned =>
       /\ \A x \in EveryLocals \ {"arr"} : call.rc[x] = Returned(x)
       /\ call.rc["arr"] = IF call.failed = "set" THEN 1 ELSE 0

\* map whose property definition failed for the second element
C23_Witness ==
  /\ EveryReturned
  /\ call.special = "map" /\ call.failed = "define" /\ call.calls = 2
  /\ call.result = "exception"
C23_WitnessCallback ==
  EveryReturned /\ call.special = "filter" /\ call.failed = "call" /\ call.n = 1
C23_WitnessStop ==
  EveryReturned /\ call.special = "every" /\ call.result = "ret" /\ call.k = 1
    /\ call.len = 2 /\ call.calls = 2
C23_WitnessFilterTA ==
  EveryReturned /\ call.special = "filter" /\ call.ta /\ call.result = "ret"
    /\ call.n = 2 /\ call.rc["ret"] = 1
C23_WitnessSetFails ==
  EveryReturned /\ call.special = "filter" /\ call.ta /\ call.failed = "set"
    /\ call.rc["arr"] = 1

(***************************************************************************)
(* The loops of js_array_every and js_array_reduce on an ordinary          *)
(* receiver whose callback changes it (specification SpecVisit): visits    *)
(* lists the calls of the callback, each with its index, with whether the  *)
(* index was an own element of the receiver when the call was made, and    *)
(* with the truth value the callback returned.                             *)
(***************************************************************************)
VisitFns == {"every", "some", "map", "filter", "reduce", "reduceRight"}
MaxVisitLen == 3
VisitReceivers == {p \in InitArrays : p.class_id = "Array" /\ p.length.lo <= MaxVisitLen}

\* the presence test of the receiver as it was when the builtin was called
every_present_at_entry(p, k) == JS_TryGetPropertyInt64(pre_obj, k).present
\* present = JS_TryGetPropertyInt64(ctx, obj, k, &val)
every_present(p, k) == JS_TryGetPropertyInt64(p, k).present

\* k1 = (special & special_reduceRight) ? len - k - 1 : k
reduce_k1(special, len, k) == IF special = "reduceRight" THEN len - k - 1 ELSE k

RECURSIVE reduce_first(_, _, _, _)
\* for (;;): the first present element becomes acc; the result is the k
\* after it, or -1 for "empty array"
reduce_first(p, special, len, k) ==
  IF k >= len THEN -1
  ELSE IF every_present(p, reduce_k1(special, len, k)) = 1 THEN k + 1
  ELSE reduce_first(p, special, len, k + 1)

\* what a callback can do to the receiver: nothing, delete an element,
\* append an element at length, or truncate it
CallbackEffects(p) ==
  {p}
  \cup {JS_DeletePropertyInt64(p, j) : j \in 0..(MaxVisitLen - 1)}
  \cup (IF p.length.lo <= MaxVisitLen
        THEN {JS_SetPropertyInt64(p, p.length.lo, JS_NewInt32(9), 1000).p} ELSE {})
  \cup {JS_SetLength(p, I64(1))}

InitVisit ==
  /\ this_obj \in VisitReceivers
  /\ pre_obj = this_obj
  /\ call = NoCall
  /\ ret = JS_UNDEFINED
  /\ ret_arr = NoArray
  /\ SortIdle
  /\ OutsideArrayIdle

\* up to the loop: js_get_length64 once; reduce without an initial value
\* takes its first present element as acc
VisitEnter ==
  /\ call = NoCall
  /\ \E fn \in VisitFns, argc \in 1..2 :
       LET len == js_get_length64(this_obj).lo
           k0 == IF fn \in {"reduce", "reduceRight"} /\ argc = 1
                 THEN reduce_first(this_obj, fn, len, 0) ELSE 0
       IN  /\ fn \notin {"reduce", "reduceRight"} => argc = 1
           /\ call' = [fn |-> fn, argc |-> argc, len |-> len, k |-> max_int(k0, 0),
                       pc |-> IF k0 < 0 THEN "exception" ELSE "loop",
                       visits |-> <<>>]
  /\ UNCHANGED <<this_obj, pre_obj, ret, ret_arr, sort_vars, outside_array>>

\* one turn of for (; k < len; k++): the presence test, then the callback
VisitIter ==
  /\ call # NoCall /\ call.fn \in VisitFns /\ call.pc = "loop" /\ call.k < call.len
  /\ LET k1 == reduce_k1(call.fn, call.len, call.k)
     IN  IF every_present(this_obj, k1) = 1
         THEN \E q \in CallbackEffects(this_obj), truthy \in BOOLEAN :
                /\ this_obj' = q
                /\ call' = [call EXCEPT
                              !.visits = Append(@, [k |-> k1, truthy |-> truthy,
                                                    own |-> JS_TryGetPropertyInt64(
                                                              this_obj, k1).present = 1]),
                              !.k = @ + 1,
                              !.pc = IF (call.fn = "every" /\ ~truthy)
                                        \/ (call.fn = "some" /\ truthy)
                                     THEN "done" ELSE "loop"]
         ELSE /\ this_obj' = this_obj
              /\ call' = [call EXCEPT !.k = @ + 1]
  /\ UNCHANGED <<pre_obj, ret, ret_arr, sort_vars, outside_array>>

VisitDone ==
  /\ call # NoCall /\ call.fn \in VisitFns /\ call.pc = "loop" /\ call.k >= call.len
  /\ call' = [call EXCEPT !.pc = "done"]
  /\ UNCHANGED <<this_obj, pre_obj, ret, ret_arr, sort_vars, outside_array>>

NextVisit == VisitEnter \/ VisitIter \/ VisitDone

SpecVisit == InitVisit /\ [][NextVisit]_vars

InVisit == call # NoCall /\ call.fn \in VisitFns
Ascending(vs) == \A i \in 1..(Len(vs) - 1) : vs[i].k < vs[i + 1].k
Descending(vs) == \A i \in 1..(Len(vs) - 1) : vs[i].k > vs[i + 1].k
\* the calls before the last one did not end every or some
NoneAfterStop(fn, vs) ==
  \A i \in 1..(Len(vs) - 1) :
    /\ fn = "every" => vs[i].truthy
    /\ fn = "some" => ~vs[i].truthy
VisitsInRange ==
  /\ call.len = pre_obj.length.lo
  /\ \A i \in 1..Len(call.visits) :
       /\ call.visits[i].k >= 0 /\ call.visits[i].k < call.len
       /\ call.visits[i].own
  /\ NoneAfterStop(call.fn, call.visits)

\* C24 as stated: the callback is called in ascending index order in all
\* six methods, reduceRight included
C24_AsStated == InVisit => VisitsInRange /\ Ascending(call.visits)

\* C24: the length is read once; every call of the callback is for an
\* index in [0, len) that is an own element of the receiver when the call
\* is made, at most once per index, in ascending index order (descending
\* for reduceRight); every and some make no call after the first falsy
\* (truthy) result
C24_Visits ==
  InVisit =>
    /\ VisitsInRange
    /\ IF call.fn = "reduceRight" THEN Descending(call.visits)
       ELSE Ascending(call.visits)

\* map on three elements: the callback for 0 deleted element 1
C24_Witness ==
  /\ InVisit /\ call.fn = "map" /\ call.pc = "done"
  /\ pre_obj.length.lo = 3 /\ JS_TryGetPropertyInt64(pre_obj, 1).present = 1
  /\ Len(call.visits) = 2 /\ call.visits[1].k = 0 /\ call.visits[2].k = 2
\* filter: a callback appended an element, which is not visited
C24_WitnessAppend ==
  /\ InVisit /\ call.fn = "filter" /\ call.pc = "done"
  /\ call.len = 2 /\ this_obj.length.lo = 3
  /\ JS_TryGetPropertyInt64(this_obj, 2).present = 1
  /\ Len(call.visits) = 2
C24_WitnessStop ==
  /\ InVisit /\ call.fn = "some" /\ call.pc = "done"
  /\ call.len = 3 /\ Len(call.visits) = 1 /\ call.visits[1].truthy
  /\ \A k \in 0..2 : JS_TryGetPropertyInt64(this_obj, k).present = 1
C24_WitnessReduceRight ==
  /\ InVisit /\ call.fn = "reduceRight" /\ call.argc = 2 /\ call.pc = "done"
  /\ Len(call.visits) = 3 /\ call.visits[1].k = 2 /\ call.visits[3].k = 0
C24_WitnessReduceFirst ==
  /\ InVisit /\ call.fn = "reduce" /\ call.argc = 1 /\ call.pc = "done"
  /\ pre_obj.length.lo = 3 /\ JS_TryGetPropertyInt64(pre_obj, 0).present = 0
  /\ Len(call.visits) = 1 /\ call.visits[1].k = 2

(***************************************************************************)
(* js_array_lastIndexOf(this_val, argv[0] = v, argv[1] = from when         *)
(* argc > 1), for a receiver shorter than 2^26                             *)
(***************************************************************************)
\* JS_ToInt64Clamp(ctx, &n, val, min, max, neg_offset) on small integers
JS_ToInt64Clamp_min(arg, min, max, neg_offset) ==
  LET r == IF arg < 0 THEN arg + neg_offset ELSE arg
  IN  IF r < min THEN min ELSE IF r > max THEN max ELSE r

RECURSIVE lastIndexOf_loop(_, _, _)
\* for (; n >= 0; n--) if (present && js_strict_eq2(argv[0], val)) res = n
lastIndexOf_loop(p, n, v) ==
  IF n < 0 THEN -1
  ELSE LET g == JS_TryGetPropertyInt64(p, n)
       IN  IF g.present = 1 /\ js_strict_eq2(v, g.val) THEN n
           ELSE lastIndexOf_loop(p, n - 1, v)

js_array_lastIndexOf(p, argc, v, from) ==
  LET len == js_get_length64(p).lo
  IN  IF len > 0
      THEN LET n == IF argc > 1 THEN JS_ToInt64Clamp_min(from, -1, len - 1, len)
                    ELSE len - 1
           IN  JS_NewInt32(lastIndexOf_loop(p, n, v))
      ELSE JS_NewInt32(-1)

(***************************************************************************)
(* indexOf and lastIndexOf on arrays with holes (specification             *)
(* SpecIndexOf)                                                            *)
(***************************************************************************)
IndexOfReceivers == {p \in InitArrays : p.length.hi = 0}

InitIndexOf ==
  /\ this_obj \in IndexOfReceivers
  /\ pre_obj = this_obj
  /\ call = NoCall
  /\ ret = JS_UNDEFINED
  /\ ret_arr = NoArray
  /\ SortIdle
  /\ OutsideArrayIdle

IndexOf ==
  /\ call = NoCall
  /\ \E v \in SearchValues, argc \in 1..2, from \in (-MaxArrayLen - 1)..(MaxArrayLen + 1) :
       /\ argc = 1 => from = 0
       /\ ret' = js_array_indexOf(this_obj, argc, v, from)
       /\ call' = [fn |-> "indexOf", argc |-> argc, v |-> v, from |-> from]
  /\ UNCHANGED <<this_obj, pre_obj, ret_arr, sort_vars, outside_array>>

LastIndexOf ==
  /\ call = NoCall
  /\ \E v \in SearchValues, argc \in 1..2, from \in (-MaxArrayLen - 1)..(MaxArrayLen + 1) :
       /\ argc = 1 => from = 0
       /\ ret' = js_array_lastIndexOf(this_obj, argc, v, from)
       /\ call' = [fn |-> "lastIndexOf", argc |-> argc, v |-> v, from |-> from]
  /\ UNCHANGED <<this_obj, pre_obj, ret_arr, sort_vars, outside_array>>

NextIndexOf == IndexOf \/ LastIndexOf

SpecIndexOf == InitIndexOf /\ [][NextIndexOf]_vars

\* the indices the search covers: from fromIndex upwards, or downwards
SearchRange ==
  LET len == this_obj.length.lo
      rel == IF call.from < 0 THEN len + call.from ELSE call.from
  IN  IF call.fn = "indexOf"
      THEN (IF call.argc > 1 THEN max_int(rel, 0) ELSE 0)..(len - 1)
      ELSE 0..(IF call.argc > 1 THEN min_int(rel, len - 1) ELSE len - 1)
\* the indices of the range that hold the value searched as an own element
Hits == {k \in SearchRange : View(this_obj).elems[k] = call.v}
IndexOfCall == call.fn \in {"indexOf", "lastIndexOf"}

\* C25: indexOf and lastIndexOf return -1 or an index below the length at
\* which the receiver has an own element equal to the value searched: the
\* lowest such index at or after fromIndex for indexOf, the highest at or
\* before fromIndex for lastIndexOf, and -1 when there is none; a hole is
\* never a match for undefined
C25_NoHoleIndex ==
  IndexOfCall =>
    /\ ret.tag = "int"
    /\ ret.v = -1 \/ (ret.v >= 0 /\ ret.v < this_obj.length.lo)
    /\ ret.v >= 0 => JS_TryGetPropertyInt64(this_obj, ret.v).present = 1
    /\ ret.v = -1 <=> Hits = {}
    /\ ret.v >= 0 =>
         /\ ret.v \in Hits
         /\ \A k \in Hits : IF call.fn = "indexOf" THEN ret.v <= k ELSE ret.v >= k

\* indexOf(undefined) passes a hole and finds the stored undefined after it
C25_Witness ==
  /\ call.fn = "indexOf" /\ call.v = JS_UNDEFINED
  /\ this_obj.length.lo = 3
  /\ View(this_obj).elems[0] = HOLE
  /\ ret.v = 2
C25_WitnessLast ==
  /\ call.fn = "lastIndexOf" /\ call.v = JS_UNDEFINED /\ call.argc = 2 /\ call.from = -1
  /\ this_obj.length.lo = 4 /\ View(this_obj).elems[3] = HOLE
  /\ ret.v = 1
C25_WitnessOnlyHoles ==
  /\ call.fn = "indexOf" /\ call.v = JS_UNDEFINED
  /\ this_obj.length.lo = 3 /\ \A k \in 0..2 : View(this_obj).elems[k] = HOLE
  /\ ret.v = -1
C25_WitnessFastTail ==
  /\ call.fn = "indexOf" /\ call.v = JS_UNDEFINED
  /\ this_obj.fast_array /\ Len(this_obj.values) = 2 /\ this_obj.length.lo = 4
  /\ ret.v = -1

(***************************************************************************)
(* Array iterators (specification SpecIter): it is JSArrayIteratorData     *)
(* (obj is "array" while the iterator holds its reference and "undefined"  *)
(* after it has dropped it); the array lives in this_obj and script may    *)
(* change it between two calls of next.                                    *)
(***************************************************************************)
IteratorKinds == {"JS_ITERATOR_KIND_KEY", "JS_ITERATOR_KIND_VALUE",
                  "JS_ITERATOR_KIND_KEY_AND_VALUE"}
MaxIterLen == 2
MaxNexts == 5

\* js_create_array_iterator: it->obj = arr; it->kind = kind; it->idx = 0
js_create_array_iterator(kind) == [obj |-> "array", kind |-> kind, idx |-> 0]

\* js_create_array(ctx, 2, {num, val})
js_create_array(tab) == [tag |-> "array", elems |-> tab]

\* next that keeps it->obj when the index has reached the length
js_array_iterator_next_keep_obj(it, p, len_ok, get_ok) ==
  IF it.obj = "undefined" THEN [it |-> it, done |-> TRUE, val |-> JS_UNDEFINED]
  ELSE IF ~len_ok THEN [it |-> it, done |-> FALSE, val |-> JS_EXCEPTION]
  ELSE LET len == js_get_length64(p).lo
           idx == it.idx
       IN  IF idx >= len
           THEN [it |-> it, done |-> TRUE, val |-> JS_UNDEFINED]
           ELSE LET it1 == [it EXCEPT !.idx = idx + 1]
                IN  IF it.kind = "JS_ITERATOR_KIND_KEY"
                    THEN [it |-> it1, done |-> FALSE, val |-> JS_NewInt32(idx)]
                    ELSE IF ~get_ok
                    THEN [it |-> it1, done |-> FALSE, val |-> JS_EXCEPTION]
                    ELSE [it |-> it1, done |-> FALSE,
                          val |-> IF it.kind = "JS_ITERATOR_KIND_VALUE"
                                  THEN JS_GetPropertyInt64(p, idx)
                                  ELSE js_create_array(<<JS_NewInt32(idx),
                                                         JS_GetPropertyInt64(p, idx)>>)]

\* js_array_iterator_next on an iterator over the ordinary object p; len_ok
\* and get_ok say whether js_get_length32 and JS_GetPropertyUint32 succeed
js_array_iterator_next(it, p, len_ok, get_ok) ==
  IF it.obj = "undefined" THEN [it |-> it, done |-> TRUE, val |-> JS_UNDEFINED]
  ELSE IF ~len_ok THEN [it |-> it, done |-> FALSE, val |-> JS_EXCEPTION]
  ELSE LET len == js_get_length64(p).lo
           idx == it.idx
       IN  IF idx >= len
           THEN \* JS_FreeValue(it->obj); it->obj = JS_UNDEFINED
                [it |-> [it EXCEPT !.obj = "undefined"], done |-> TRUE,
                 val |-> JS_UNDEFINED]
           ELSE LET it1 == [it EXCEPT !.idx = idx + 1]
                IN  IF it.kind = "JS_ITERATOR_KIND_KEY"
                    THEN [it |-> it1, done |-> FALSE, val |-> JS_NewInt32(idx)]
                    ELSE IF ~get_ok
                    THEN [it |-> it1, done |-> FALSE, val |-> JS_EXCEPTION]
                    ELSE [it |-> it1, done |-> FALSE,
                          val |-> IF it.kind = "JS_ITERATOR_KIND_VALUE"
                                  THEN JS_GetPropertyInt64(p, idx)
                                  ELSE js_create_array(<<JS_NewInt32(idx),
                                                         JS_GetPropertyInt64(p, idx)>>)]

IterReceivers == {p \in InitArrays : p.class_id = "Array" /\ p.length.lo <= MaxIterLen}

InitIter ==
  /\ this_obj \in IterReceivers
  /\ pre_obj = this_obj
  /\ call = NoCall
  /\ ret = JS_UNDEFINED
  /\ ret_arr = NoArray
  /\ SortIdle
  /\ OutsideArrayIdle

IterCreate ==
  /\ call = NoCall
  /\ \E kind \in IteratorKinds :
       call' = [fn |-> "iterator", it |-> js_create_array_iterator(kind), nexts |-> 0,
                done |-> FALSE, reported |-> FALSE]
  /\ UNCHANGED <<this_obj, pre_obj, ret, ret_arr, sort_vars, outside_array>>

IterNext ==
  /\ call # NoCall /\ call.fn = "iterator" /\ call.nexts < MaxNexts
  /\ \E len_ok \in BOOLEAN, get_ok \in BOOLEAN :
       \E r \in {js_array_iterator_next(call.it, this_obj, len_ok, get_ok)} :
         /\ call' = [call EXCEPT !.it = r.it, !.nexts = @ + 1, !.done = r.done,
                                 !.reported = @ \/ r.done]
         /\ ret' = r.val
  /\ UNCHANGED <<this_obj, pre_obj, ret_arr, sort_vars, outside_array>>

\* script between two calls: append an element, delete one, or truncate
IterScript ==
  /\ call # NoCall /\ call.fn = "iterator"
  /\ \E q \in {JS_DeletePropertyInt64(this_obj, 0), JS_SetLength(this_obj, I64(0))}
            \cup (IF this_obj.length.lo <= MaxIterLen
                  THEN {JS_SetPropertyInt64(this_obj, this_obj.length.lo,
                                            JS_NewInt32(9), 1000).p}
                  ELSE {}) :
       this_obj' = q
  /\ UNCHANGED <<pre_obj, call, ret, ret_arr, sort_vars, outside_array>>

NextIter == IterCreate \/ IterNext \/ IterScript

SpecIter == InitIter /\ [][NextIter]_vars

InIter == call # NoCall /\ call.fn = "iterator"
IsNextStep == InIter /\ call'.nexts = call.nexts + 1
\* what a call of next yields at index idx of the array p
Yield(kind, p, idx) ==
  CASE kind = "JS_ITERATOR_KIND_KEY" -> JS_NewInt32(idx)
    [] kind = "JS_ITERATOR_KIND_VALUE" ->
         IF View(p).elems[idx] = HOLE THEN JS_UNDEFINED ELSE View(p).elems[idx]
    [] OTHER ->
         js_create_array(<<JS_NewInt32(idx),
                           IF View(p).elems[idx] = HOLE THEN JS_UNDEFINED
                           ELSE View(p).elems[idx]>>)

\* C26: once next has reported done the iterator holds no reference to the
\* array and every later call reports done with undefined, whatever is
\* appended to the array; before that, a call that succeeds yields the
\* key, value or pair at the iterator's index in the array as it is then
\* and advances the index by one, and a call reports done exactly when
\* the index has reached the length the array has at that call
C26_IteratorDone ==
  /\ [](InIter /\ call.reported => call.it.obj = "undefined")
  /\ [][IsNextStep /\ call.reported =>
          call'.done /\ ret' = JS_UNDEFINED /\ call'.it = call.it]_vars
  /\ [][IsNextStep /\ ~call.reported /\ ret' # JS_EXCEPTION =>
          IF call.it.idx >= this_obj.length.lo
          THEN call'.done /\ ret' = JS_UNDEFINED /\ call'.it.obj = "undefined"
          ELSE /\ ~call'.done
               /\ ret' = Yield(call.it.kind, this_obj, call.it.idx)
               /\ call'.it.idx = call.it.idx + 1]_vars
  /\ [][InIter /\ ~IsNextStep => call'.it = call.it]_vars

\* next after done, on an array that has grown beyond the iterator's index
C26_Witness ==
  /\ InIter /\ call.reported /\ call.done /\ call.nexts >= 2
  /\ this_obj.length.lo > call.it.idx
  /\ JS_TryGetPropertyInt64(this_obj, call.it.idx).present = 1
  /\ ret = JS_UNDEFINED
\* an element appended before done is yielded
C26_WitnessGrown ==
  /\ InIter /\ ~call.reported /\ call.it.kind = "JS_ITERATOR_KIND_KEY_AND_VALUE"
  /\ pre_obj.length.lo = 1
  /\ ret = js_create_array(<<JS_NewInt32(1), JS_NewInt32(9)>>)
C26_WitnessValue ==
  /\ InIter /\ ~call.reported /\ call.it.kind = "JS_ITERATOR_KIND_VALUE"
  /\ call.it.idx = 2 /\ ret = JS_NewInt32(2) /\ call.nexts = 2

(***************************************************************************)
(* js_array_sort when a comparison throws (specification SpecSortThrow):   *)
(* comparators that throw, or return a value whose conversion throws, when *)
(* handed {k: 2}, and receivers holding an object whose toString throws.   *)
(***************************************************************************)
ThrowingMethods == {"throws", "throwsOn21", "returnsThrowing"}
SortPoolThrowing == {JS_NewInt32(2), JS_NewInt32(10), THROWING_OBJ, JS_UNDEFINED, HOLE}

InitSortThrow ==
  /\ \E method \in ThrowingMethods \cup {"undefined"} :
       /\ call = [fn |-> "sort", method |-> method, invoked |-> 0, released |-> <<>>]
       /\ this_obj \in {MakeArray(q) :
                          q \in SeqsUpTo(IF method = "undefined" THEN SortPoolThrowing
                                         ELSE SortPoolMethod, MaxSortLen)}
  /\ pre_obj = this_obj
  /\ ret = JS_UNDEFINED
  /\ ret_arr = NoArray
  /\ SortIdle
  /\ OutsideArrayIdle

SpecSortThrow == InitSortThrow /\ [][NextSort]_vars

SortThrew == call.fn = "sort" /\ asc.exception = 1
\* C27: once a comparison has thrown (the comparator, the conversion of
\* its result, or JS_ToString), no later comparison calls the comparator or
\* JS_ToString, moves a slot or caches a string; js_array_sort returns the
\* exception and leaves the receiver as it was; and every value and every
\* cached string held by a slot is freed exactly once, none is stored
C27_SortException ==
  /\ [][SortThrew =>
          /\ asc'.exception = 1
          /\ call'.invoked = call.invoked
          /\ slots' = slots]_vars
  /\ [](SortThrew /\ sort_pc = "done" =>
          /\ ret = JS_EXCEPTION
          /\ this_obj = pre_obj
          /\ Len(call.released) = Len(slots)
          /\ \A n \in 1..Len(slots) :
               /\ call.released[n].val_freed = 1
               /\ call.released[n].val_stored = 0
               /\ call.released[n].str_freed = IF slots[n].str # NULL_STR THEN 1 ELSE 0)
  /\ [](call.fn = "sort" /\ sort_pc = "done" /\ asc.exception = 0 =>
          \A n \in 1..Len(slots) :
            call.released[n].val_freed + call.released[n].val_stored = 1)

\* the comparator threw at its second call
C27_Witness ==
  /\ SortThrew /\ sort_pc = "done"
  /\ call.method = "throwsOn21" /\ call.invoked = 2
  /\ Len(slots) = 3
  /\ ret = JS_EXCEPTION
\* toString threw after a string had been cached
C27_WitnessToString ==
  /\ SortThrew /\ sort_pc = "done" /\ call.method = "undefined"
  /\ \E n \in 1..Len(slots) : slots[n].str # NULL_STR /\ call.released[n].str_freed = 1
  /\ \E n \in 1..Len(slots) : slots[n].val = THROWING_OBJ /\ slots[n].str = NULL_STR
C27_WitnessConversion ==
  SortThrew /\ sort_pc = "done" /\ call.method = "returnsThrowing" /\ call.invoked = 1
C27_WitnessLater ==
  SortThrew /\ sort_pc = "rqsort" /\ call.method = "throwsOn21" /\ call.invoked = 3

\* how often the value x occurs among the indices K of the view a
CountIn(a, K, x) == Cardinality({k \in K : a.elems[k] = x})
UndefinedIn(a) == {k \in 0..(a.len - 1) : a.elems[k] = JS_UNDEFINED}

\* C28: after a sort that returned the receiver, with d defined elements,
\* u undefined elements and the rest holes before the call: the length is
\* unchanged, indices [0, d) hold the d defined elements, each as often as
\* before, with no element before one the comparator puts ahead of it,
\* indices [d, d + u) hold undefined, and indices from d + u on are absent
C28_SortLayout ==
  (call.fn = "sort" /\ sort_pc = "done" /\ ~JS_IsException(ret)) =>
    LET a == View(pre_obj)
        b == View(this_obj)
        d == Cardinality(Sortable(a))
        u == Cardinality(UndefinedIn(a))
    IN  /\ b.len = a.len
        /\ Sortable(b) = 0..(d - 1)
        /\ \A k \in Sortable(a) :
             CountIn(b, 0..(d - 1), a.elems[k]) = CountIn(a, Sortable(a), a.elems[k])
        /\ \A i, j \in 0..(d - 1) :
             i < j => Compare(call.method, b.elems[i], b.elems[j]) <= 0
        /\ \A k \in d..(d + u - 1) : b.elems[k] = JS_UNDEFINED
        /\ \A k \in (d + u)..(a.len - 1) : b.elems[k] = HOLE

\* [hole, undefined, {k:1}] becomes [{k:1}, undefined, hole]
C28_Witness ==
  /\ call.fn = "sort" /\ sort_pc = "done" /\ call.method = "byKey"
  /\ View(pre_obj) = ViewOf(<<HOLE, JS_UNDEFINED, JS_MKOBJ(11)>>)
  /\ View(this_obj) = ViewOf(<<JS_MKOBJ(11), JS_UNDEFINED, HOLE>>)
C28_WitnessDefault ==
  /\ call.fn = "sort" /\ sort_pc = "done" /\ call.method = "undefined"
  /\ View(pre_obj) = ViewOf(<<JS_NewInt32(2), HOLE, JS_NewInt32(10)>>)
  /\ View(this_obj) = ViewOf(<<JS_NewInt32(10), JS_NewInt32(2), HOLE>>)

(***************************************************************************)
(* js_array_copyWithin(this_val, argv[0] = target, argv[1] = start,        *)
(* argv[2] = end when argc > 2), for a receiver shorter than 2^26          *)
(***************************************************************************)
\* copyWithin that always copies upwards
js_array_copyWithin_forward(p, argc, target, start, end) ==
  LET len64 == js_get_length64(p)
      to == JS_ToInt64Clamp(target, len64, len64).lo
      from == JS_ToInt64Clamp(start, len64, len64).lo
      final == IF argc > 2 THEN JS_ToInt64Clamp(end, len64, len64).lo ELSE len64.lo
      count == min_int(final - from, len64.lo - to)
      c == JS_CopySubArray(p, to, from, count, 1, 1000)
  IN  IF c.ret < 0 THEN [val |-> JS_EXCEPTION, p |-> c.p]
      ELSE [val |-> JS_MKOBJ(1), p |-> c.p]

js_array_copyWithin(p, argc, target, start, end) ==
  LET len64 == js_get_length64(p)
      to == JS_ToInt64Clamp(target, len64, len64).lo
      from == JS_ToInt64Clamp(start, len64, len64).lo
      final == IF argc > 2 THEN JS_ToInt64Clamp(end, len64, len64).lo ELSE len64.lo
      count == min_int(final - from, len64.lo - to)
      c == JS_CopySubArray(p, to, from, count,
                           IF from < to /\ to < from + count THEN -1 ELSE 1, 1000)
  IN  IF c.ret < 0 THEN [val |-> JS_EXCEPTION, p |-> c.p]
      ELSE [val |-> JS_MKOBJ(1), p |-> c.p]

InitCopyWithin ==
  /\ this_obj \in IndexOfReceivers
  /\ pre_obj = this_obj
  /\ call = NoCall
  /\ ret = JS_UNDEFINED
  /\ ret_arr = NoArray
  /\ SortIdle
  /\ OutsideArrayIdle

CopyWithin ==
  /\ call = NoCall
  /\ \E argc \in 2..3, target \in (-MaxArrayLen - 1)..(MaxArrayLen + 1),
        start \in (-MaxArrayLen - 1)..(MaxArrayLen + 1), end \in -2..(MaxArrayLen + 1) :
       /\ argc = 2 => end = 0
       /\ \E r \in {js_array_copyWithin(this_obj, argc, target, start, end)} :
            /\ this_obj' = r.p
            /\ ret' = r.val
       /\ call' = [fn |-> "copyWithin", argc |-> argc, target |-> target,
                   start |-> start, end |-> end]
  /\ UNCHANGED <<pre_obj, ret_arr, sort_vars, outside_array>>

NextCopyWithin == CopyWithin

SpecCopyWithin == InitCopyWithin /\ [][NextCopyWithin]_vars

\* an argument as an index of an array of length len
RelativeIndex(arg, len) == IF arg < 0 THEN max_int(len + arg, 0) ELSE min_int(arg, len)
CopyTo == RelativeIndex(call.target, pre_obj.length.lo)
CopyFrom == RelativeIndex(call.start, pre_obj.length.lo)
CopyFinal ==
  IF call.argc > 2 THEN RelativeIndex(call.end, pre_obj.length.lo) ELSE pre_obj.length.lo
CopyCount == min_int(CopyFinal - CopyFrom, pre_obj.length.lo - CopyTo)

\* C29: after copyWithin(target, start, end), with to, from and final the
\* clamped arguments and count = min(final - from, len - to): each index
\* to + i, i < count, holds what from + i held before the call, a hole for
\* a hole; every other index and the length are as before; with
\* count <= 0 nothing changes; the call returns the receiver
C29_CopyWithin ==
  call.fn = "copyWithin" =>
    LET a == View(pre_obj)
        b == View(this_obj)
    IN  /\ ret = JS_MKOBJ(1)
        /\ b.len = a.len
        /\ \A k \in 0..(a.len - 1) :
             b.elems[k] = IF CopyCount > 0 /\ k >= CopyTo /\ k < CopyTo + CopyCount
                          THEN a.elems[CopyFrom + (k - CopyTo)]
                          ELSE a.elems[k]

\* [1, 2, 3, 4].copyWithin(1, 0): overlapping, copied downwards from the top
C29_Witness ==
  /\ call.fn = "copyWithin" /\ call.target = 1 /\ call.start = 0 /\ call.argc = 2
  /\ pre_obj.fast_array
  /\ View(pre_obj) = ViewOf(<<JS_NewInt32(1), JS_NewInt32(2), JS_NewInt32(3), JS_NewInt32(4)>>)
  /\ View(this_obj) = ViewOf(<<JS_NewInt32(1), JS_NewInt32(1), JS_NewInt32(2), JS_NewInt32(3)>>)
\* a hole copied onto an element, on a generic array
C29_WitnessHole ==
  /\ call.fn = "copyWithin" /\ call.target = 0 /\ call.start = 1 /\ call.argc = 2
  /\ ~pre_obj.fast_array /\ pre_obj.length.lo = 3
  /\ View(pre_obj).elems[0] # HOLE /\ View(pre_obj).elems[1] = HOLE
  /\ View(this_obj).elems[0] = HOLE
\* a fast array with holes above its stored values
C29_WitnessFastTail ==
  /\ call.fn = "copyWithin" /\ call.target = 0 /\ call.start = 2 /\ call.argc = 2
  /\ pre_obj.fast_array /\ Len(pre_obj.values) = 3 /\ pre_obj.length.lo = 4
  /\ View(this_obj).elems[1] = HOLE /\ View(this_obj).elems[0] = pre_obj.values[3]
C29_WitnessNothing ==
  /\ call.fn = "copyWithin" /\ call.argc = 3 /\ CopyCount < 0
  /\ pre_obj.length.lo = 3 /\ this_obj = pre_obj

(***************************************************************************)
(* anode_js_add_any(ctx, x, y) on two int32-tagged operands (specification *)
(* SpecAdd).  An int32 is kept in two parts, n = hi * 2^16 + lo with       *)
(* 0 <= lo < 2^16 and -2^15 <= hi < 2^15, so that sums beyond 32 bits can  *)
(* be formed.  The addition int32_t sum = x + y overflows for some         *)
(* operands, which C leaves undefined: the build may wrap the sum to 32    *)
(* bits ("wrap") or go on with the full sum in a wider register ("wide")   *)
(* until JS_NewInt32 stores its low 32 bits.                               *)
(***************************************************************************)
Int32(hi, lo) == [hi |-> hi, lo |-> lo]
Int32His == {-(U16 \div 2), -(U16 \div 2) + 1, -1, 0, 1, U16 \div 4, U16 \div 2 - 1}
Int32Los == {0, 1, U16 - 1}
Int32s == {Int32(hi, lo) : hi \in Int32His, lo \in Int32Los}
OverflowOutcomes == {"wrap", "wide"}

\* x + y in the integers
ExactSum(x, y) ==
  LET l == x.lo + y.lo
  IN  [hi |-> x.hi + y.hi + l \div U16, lo |-> l % U16]
IsInt32(s) == s.hi >= -(U16 \div 2) /\ s.hi < U16 \div 2
\* the low 32 bits, as a signed number
WrapInt32(s) == [hi |-> ((s.hi + U16 \div 2) % U16) - U16 \div 2, lo |-> s.lo]

JS_NewInt32Parts(s) == [tag |-> "int", hi |-> WrapInt32(s).hi, lo |-> s.lo]
\* the doubles met here are integers below 2^33 and are held exactly
JS_NewFloat64Parts(s) == [tag |-> "float64", hi |-> s.hi, lo |-> s.lo]

\* the addition without the overflow test
anode_js_add_any_unchecked(x, y, ub) == JS_NewInt32Parts(ExactSum(x, y))

\* the branch JS_VALUE_IS_BOTH_INT(x, y); ub is what the build does with an
\* overflowing x + y
anode_js_add_any(x, y, ub) ==
  LET e == ExactSum(x, y)
      sum == IF IsInt32(e) \/ ub = "wide" THEN e ELSE WrapInt32(e)
  IN  \* (sum ^ x) >= 0: sum and x have the same sign
      IF (sum.hi < 0) = (x.hi < 0)
      THEN JS_NewInt32Parts(sum)
      ELSE \* (double)x + (double)y
           JS_NewFloat64Parts(e)

InitAdd ==
  /\ ArrayIdle
  /\ call = NoCall
  /\ ret = JS_UNDEFINED
  /\ SortIdle
  /\ OutsideArrayIdle

AddAny ==
  /\ call = NoCall
  /\ \E x \in Int32s, y \in Int32s, ub \in OverflowOutcomes :
       \* the choice exists only where the addition overflows
       /\ IsInt32(ExactSum(x, y)) => ub = "wrap"
       /\ ret' = anode_js_add_any(x, y, ub)
       /\ call' = [fn |-> "add", x |-> x, y |-> y, ub |-> ub]
  /\ UNCHANGED <<this_obj, pre_obj, ret_arr, sort_vars, outside_array>>

NextAdd == AddAny

SpecAdd == InitAdd /\ [][NextAdd]_vars

AddCall == call # NoCall /\ call.fn = "add"
AddOverflows == ~IsInt32(ExactSum(call.x, call.y))
ReturnsExactSum ==
  /\ ret.hi = ExactSum(call.x, call.y).hi
  /\ ret.lo = ExactSum(call.x, call.y).lo

C30_WitnessMixed ==
  /\ AddCall
  /\ call.x = Int32(0, 0) /\ call.y = Int32(-1, U16 - 1)
  /\ ret.tag = "float64" /\ ret.hi = -1 /\ ret.lo = U16 - 1
C30_WitnessInt ==
  /\ AddCall /\ call.x = Int32(1, 1) /\ call.y = Int32(1, U16 - 1)
  /\ ret = JS_NewInt32Parts([hi |-> 3, lo |-> 0])
\* 2147483647 + 1 with the sum kept wide: the int32 -2147483648
C30_WitnessWide ==
  /\ AddCall /\ call.ub = "wide"
  /\ call.x = Int32(U16 \div 2 - 1, U16 - 1) /\ call.y = Int32(0, 1)
  /\ ret.tag = "int" /\ ret.hi = -(U16 \div 2) /\ ret.lo = 0

====
